---- MODULE Spec2Model ----
(***************************************************************************)
(* Live state synchronisation of beads-tui: the LiveReloadMixin scheduler  *)
(* (file watcher, debounce, interval timer, pause gate) of                 *)
(* src/beads_tui/mixins/live_reload.py and the fetch / diff / reconcile    *)
(* cycle of BeadsTuiApp in src/beads_tui/app.py.                           *)
(*                                                                         *)
(* Time is counted in quarter seconds.  Everything runs on one asyncio     *)
(* event loop: a step of the model is one callback or one coroutine        *)
(* segment between two awaits.                                             *)
(***************************************************************************)
EXTENDS Integers, Sequences, FiniteSets, TLC

VARIABLES
    \* ---- the external store and the runtime the application runs on
    store,                 \* bd database: id -> [life, issue]
    timers,                \* live Textual interval timers: {[id, interval]}
    watcher_tasks,         \* live asyncio tasks running _run_file_watcher
    call_later,            \* asyncio TimerHandles scheduled and not cancelled
    cycles,                \* coroutines in flight that load issues
    \* ---- LiveReloadMixin fields
    _refresh_paused,
    _refresh_timer,
    _watcher_task,
    _debounce_handle,
    \* ---- BeadsTuiApp fields
    mounted,
    client,
    _issues,
    _filtered_issues,
    _current_filters,
    _sort_column,
    _sort_reverse,
    table_rows,            \* DataTable rows, in display order
    cursor_row,            \* DataTable.cursor_coordinate.row
    table_calls,           \* observer: what the last step did to the DataTable
    \* ---- observers (no code reads them)
    sinceSignal,           \* time since the last signal handed to the debouncer
    burstLen,              \* signals of the burst under way (saturating)
    missed,                \* store written while paused, not yet fetched
    \* ---- a function taken alone: its arguments and what it returned
    probe

envVars   == <<store, timers, watcher_tasks, call_later, cycles>>
mixinVars == <<_refresh_paused, _refresh_timer, _watcher_task, _debounce_handle>>
dataVars  == <<_issues, _filtered_issues>>
viewCfgVars == <<_current_filters, _sort_column, _sort_reverse>>
tableVars == <<table_rows, cursor_row>>
appVars   == <<mounted, client>>
obsVars   == <<sinceSignal, burstLen, missed>>
vars == <<envVars, mixinVars, dataVars, viewCfgVars, tableVars, table_calls,
          appVars, obsVars, probe>>

\* Python's None: 0 where the value is an object (handles and ids are positive),
\* "None" where it is a string, <<>> where it is an optional filter value
None     == 0
NoneStr  == "None"
Nothing  == <<>>
Some(x)  == <<x>>

(***************************************************************************)
(* Bounds of the model.                                                    *)
(***************************************************************************)
MaxIssues   == 1   \* ids the store may ever hold
MaxRev      == 2   \* writes to one record (values of updated_at)
MaxInFlight == 2   \* coroutines in flight at once
MaxTimers   == 1   \* interval timers alive at once
MaxBurst    == 2   \* saturation of the burst-length observer

(***************************************************************************)
(* Program constants, in quarter seconds.                                  *)
(***************************************************************************)
REFRESH_INTERVAL  == 12    \* 3.0 s
FALLBACK_INTERVAL == 120   \* 30.0 s
DEBOUNCE_DELAY    == 2     \* 0.5 s
DEFAULT_PRIORITY  == 2     \* Issue.priority default

Ids       == 1..MaxIssues
Statuses  == {"open"}
DEFAULT_COLUMNS == <<"id", "priority", "status", "type", "title", "updated">>

Min(a, b) == IF a < b THEN a ELSE b
Max(a, b) == IF a > b THEN a ELSE b
Range(s)  == {s[i] : i \in 1..Len(s)}
RemoveAt(s, k) == [i \in 1..(Len(s) - 1) |-> IF i < k THEN s[i] ELSE s[i + 1]]
\* the least positive number not in S: the identity of a fresh object
Fresh(S) == CHOOSE n \in 1..(Cardinality(S) + 1) : n \notin S
ObjIds(S) == {o.id : o \in S}

(***************************************************************************)
(* models.Issue: the fields the list view reads.  A string is a sequence   *)
(* of characters; an id is a number, ordered as the id strings are.        *)
(***************************************************************************)
Issue(id, updated_at, status, priority, issue_type, title, owner, assignee) ==
    [id |-> id, updated_at |-> updated_at, status |-> status,
     priority |-> priority, issue_type |-> issue_type, title |-> title,
     owner |-> owner, assignee |-> assignee]

IdsOf(s) == {s[i].id : i \in 1..Len(s)}

\* a place of the store that holds no record: not created yet, or deleted
Slot(life, id) ==
    [life |-> life, issue |-> Issue(id, 0, "", 0, <<>>, <<>>, <<>>, <<>>)]

(***************************************************************************)
(* diff_issues(old, new) -> (added, changed, removed_ids).                 *)
(* old_map / new_map are dicts built by a comprehension: for a repeated    *)
(* id the last issue wins and the key keeps its first position.            *)
(* A loop over a list is taken as the loop over its first half followed by *)
(* the loop over its second half.                                          *)
(***************************************************************************)
RECURSIVE DictKeys(_)
DictKeys(s) ==
    IF s = <<>> THEN <<>>
    ELSE IF Len(s) = 1 THEN <<s[1].id>>
    ELSE LET half  == Len(s) \div 2
             front == DictKeys(SubSeq(s, 1, half))
             back  == DictKeys(SubSeq(s, half + 1, Len(s)))
             IsNew(k) == k \notin Range(front)
         IN front \o SelectSeq(back, IsNew)

DictGet(s, k) ==
    LET last == CHOOSE i \in 1..Len(s) :
                    /\ s[i].id = k
                    /\ \A j \in (i + 1)..Len(s) : s[j].id # k
    IN s[last]

\* `changed` taken as "the revision is not the one old has for the id",
\* which holds of an id old does not have as well
DiffChangedWithoutOld(old, new) ==
    LET old_keys == DictKeys(old)
        new_keys == DictKeys(new)
        IsAdded(k)   == k \notin Range(old_keys)
        IsChanged(k) == \/ k \notin Range(old_keys)
                        \/ DictGet(new, k).updated_at # DictGet(old, k).updated_at
        IsRemoved(k) == k \notin Range(new_keys)
        added_keys   == SelectSeq(new_keys, IsAdded)
        changed_keys == SelectSeq(new_keys, IsChanged)
    IN [added       |-> [i \in 1..Len(added_keys) |-> DictGet(new, added_keys[i])],
        changed     |-> [i \in 1..Len(changed_keys) |->
                            DictGet(new, changed_keys[i])],
        removed_ids |-> SelectSeq(old_keys, IsRemoved)]

\* `changed` only when the new revision is the later one
DiffNewerOnly(old, new) ==
    LET old_keys == DictKeys(old)
        new_keys == DictKeys(new)
        IsAdded(k)   == k \notin Range(old_keys)
        IsChanged(k) == /\ k \in Range(old_keys)
                        /\ DictGet(new, k).updated_at > DictGet(old, k).updated_at
        IsRemoved(k) == k \notin Range(new_keys)
        added_keys   == SelectSeq(new_keys, IsAdded)
        changed_keys == SelectSeq(new_keys, IsChanged)
    IN [added       |-> [i \in 1..Len(added_keys) |-> DictGet(new, added_keys[i])],
        changed     |-> [i \in 1..Len(changed_keys) |->
                            DictGet(new, changed_keys[i])],
        removed_ids |-> SelectSeq(old_keys, IsRemoved)]

\* issues compared by identity of the objects: those of a new list are never
\* the objects of the old one
DiffByObject(old, new) ==
    LET old_keys == DictKeys(old)
        new_keys == DictKeys(new)
        IsAdded(k)   == k \notin Range(old_keys)
        IsChanged(k) == k \in Range(old_keys)
        IsRemoved(k) == k \notin Range(new_keys)
        added_keys   == SelectSeq(new_keys, IsAdded)
        changed_keys == SelectSeq(new_keys, IsChanged)
    IN [added       |-> [i \in 1..Len(added_keys) |-> DictGet(new, added_keys[i])],
        changed     |-> [i \in 1..Len(changed_keys) |->
                            DictGet(new, changed_keys[i])],
        removed_ids |-> SelectSeq(old_keys, IsRemoved)]

diff_issues(old, new) ==
    LET old_keys == DictKeys(old)
        new_keys == DictKeys(new)
        IsAdded(k)   == k \notin Range(old_keys)
        IsChanged(k) == /\ k \in Range(old_keys)
                        /\ DictGet(new, k).updated_at # DictGet(old, k).updated_at
        IsRemoved(k) == k \notin Range(new_keys)
        added_keys   == SelectSeq(new_keys, IsAdded)
        changed_keys == SelectSeq(new_keys, IsChanged)
    IN [added       |-> [i \in 1..Len(added_keys) |-> DictGet(new, added_keys[i])],
        changed     |-> [i \in 1..Len(changed_keys) |->
                            DictGet(new, changed_keys[i])],
        removed_ids |-> SelectSeq(old_keys, IsRemoved)]

(***************************************************************************)
(* Strings: str.lower(), the `in` substring test and the order of str.     *)
(***************************************************************************)
CharCode(c) ==
    CASE c = "A" -> 65 [] c = "B" -> 66 [] c = "a" -> 97 [] c = "b" -> 98
      [] OTHER -> 0

LowerChar(c) == CASE c = "A" -> "a" [] c = "B" -> "b" [] OTHER -> c

Lower(t) == [i \in 1..Len(t) |-> LowerChar(t[i])]

\* q in t
Contains(t, q) ==
    \E k \in 0..(Len(t) - Len(q)) : \A i \in 1..Len(q) : t[k + i] = q[i]

\* a < b for two str
StrLess(a, b) ==
    \/ /\ Len(a) < Len(b)
       /\ \A i \in 1..Len(a) : a[i] = b[i]
    \/ \E k \in 1..Min(Len(a), Len(b)) :
          /\ \A i \in 1..(k - 1) : a[i] = b[i]
          /\ CharCode(a[k]) < CharCode(b[k])

\* x or y, for two str
OrElse(x, y) == IF x # <<>> THEN x ELSE y

\* issue.id as text, which the search reads: the digits of the number that
\* stands for the id here
Digit(d) ==
    CASE d = 0 -> "0" [] d = 1 -> "1" [] d = 2 -> "2" [] d = 3 -> "3"
      [] d = 4 -> "4" [] d = 5 -> "5" [] d = 6 -> "6" [] d = 7 -> "7"
      [] d = 8 -> "8" [] OTHER -> "9"

IdText(id) ==
    IF id < 10 THEN <<Digit(id)>> ELSE <<Digit(id \div 10), Digit(id % 10)>>

(***************************************************************************)
(* _sort_key_for_column(col_key, issue), given as the order of the keys:   *)
(* KeyLess(col, a, b) is key(a) < key(b).                                  *)
(***************************************************************************)
StatusOrder(status) ==
    CASE status = "open" -> 0 [] status = "in_progress" -> 1
      [] status = "blocked" -> 2 [] status = "deferred" -> 3
      [] status = "closed" -> 4 [] OTHER -> 99

_sort_key_for_column(col_key, issue) ==
    CASE col_key = "id"       -> issue.id
      [] col_key = "priority" -> issue.priority
      [] col_key = "status"   -> StatusOrder(issue.status)
      [] col_key = "type"     -> issue.issue_type
      [] col_key = "title"    -> Lower(issue.title)
      [] col_key = "assignee" -> Lower(OrElse(issue.owner, issue.assignee))
      [] col_key = "updated"  -> issue.updated_at
      [] OTHER                -> <<>>

IntColumns == {"id", "priority", "status", "updated"}

KeyLess(col_key, a, b) ==
    IF col_key \in IntColumns
    THEN _sort_key_for_column(col_key, a) < _sort_key_for_column(col_key, b)
    ELSE StrLess(_sort_key_for_column(col_key, a),
                 _sort_key_for_column(col_key, b))

(***************************************************************************)
(* list.sort(key=..., reverse=...): stable in both directions, equal keys  *)
(* keep the order they had in the list.                                    *)
(***************************************************************************)
Before(col_key, reverse, a, b) ==
    IF reverse THEN KeyLess(col_key, b, a) ELSE KeyLess(col_key, a, b)

\* an insertion that is not stable: x goes in front of the first element
\* that is not strictly before it, so in front of its equals
InsertBeforeEqual(col_key, reverse, sorted, x) ==
    LET hits == {i \in 1..Len(sorted) : ~Before(col_key, reverse, sorted[i], x)}
        pos  == IF hits = {} THEN Len(sorted) + 1
                ELSE CHOOSE i \in hits : \A j \in hits : i <= j
    IN SubSeq(sorted, 1, pos - 1) \o <<x>> \o SubSeq(sorted, pos, Len(sorted))

\* x goes in front of the first element it is strictly before
InsertSorted(col_key, reverse, sorted, x) ==
    LET hits == {i \in 1..Len(sorted) : Before(col_key, reverse, x, sorted[i])}
        pos  == IF hits = {} THEN Len(sorted) + 1
                ELSE CHOOSE i \in hits : \A j \in hits : i <= j
    IN SubSeq(sorted, 1, pos - 1) \o <<x>> \o SubSeq(sorted, pos, Len(sorted))

\* the elements of s put one after the other, first to last, into sorted
RECURSIVE InsertAll(_, _, _, _)
InsertAll(col_key, reverse, sorted, s) ==
    IF s = <<>> THEN sorted
    ELSE IF Len(s) = 1 THEN InsertSorted(col_key, reverse, sorted, s[1])
    ELSE LET half  == Len(s) \div 2
             first == InsertAll(col_key, reverse, sorted, SubSeq(s, 1, half))
         IN IF Len(first) = 0 THEN first
            ELSE InsertAll(col_key, reverse, first,
                           SubSeq(s, half + 1, Len(s)))

ListSort(col_key, reverse, s) == InsertAll(col_key, reverse, <<>>, s)

(***************************************************************************)
(* BeadsTuiApp._apply_filters_and_sort: the value it stores in             *)
(* _filtered_issues, from _issues, _current_filters and the sort fields.   *)
(***************************************************************************)
SearchHit(q, i) ==
    \/ Contains(Lower(i.title), q)
    \/ Contains(Lower(IdText(i.id)), q)
    \/ Contains(Lower(i.owner), q)
    \/ Contains(Lower(i.assignee), q)
    \/ Contains(Lower(i.issue_type), q)

\* the pipeline if the search text were compared as typed, not lowered
FilterSearchAsTyped(issues, f, sort_column, sort_reverse) ==
    LET ByStatus(i)   == f.statuses = Nothing \/ i.status \in f.statuses[1]
        BySearch(i)   == f.search = <<>> \/ SearchHit(f.search, i)
        ByPriority(i) == f.priority = Nothing \/ i.priority = f.priority[1]
        ByType(i)     == f.type = <<>> \/ i.issue_type = f.type
        Pass(i)       == ByStatus(i) /\ BySearch(i) /\ ByPriority(i) /\ ByType(i)
    IN ListSort(sort_column, sort_reverse, SelectSeq(issues, Pass))

_apply_filters_and_sort(issues, f, sort_column, sort_reverse) ==
    LET ByStatus(i)   == f.statuses = Nothing \/ i.status \in f.statuses[1]
        BySearch(i)   == f.search = <<>> \/ SearchHit(Lower(f.search), i)
        ByPriority(i) == f.priority = Nothing \/ i.priority = f.priority[1]
        ByType(i)     == f.type = <<>> \/ i.issue_type = f.type
        Pass(i)       == ByStatus(i) /\ BySearch(i) /\ ByPriority(i) /\ ByType(i)
    IN ListSort(sort_column, sort_reverse, SelectSeq(issues, Pass))

(***************************************************************************)
(* The DataTable of the list view.  A row is its key and its cells; the    *)
(* operations give the table as <<rows, cursor_row>>.                      *)
(***************************************************************************)
\* _PRIORITY_STYLES.get(priority, ("P?", "")): the label and the style
PriorityStyle(priority) ==
    CASE priority = 0 -> <<"P0", "bold red">>
      [] priority = 1 -> <<"P1", "dark_orange">>
      [] priority = 2 -> <<"P2", "yellow">>
      [] priority = 3 -> <<"P3", "dodger_blue">>
      [] priority = 4 -> <<"P4", "dim">>
      [] OTHER        -> <<"P?", "">>

_priority_cell(priority) == PriorityStyle(priority)

\* the symbol of a known status, the status itself otherwise
_status_cell(status) ==
    CASE status = "open"        -> "o"
      [] status = "in_progress" -> "half"
      [] status = "blocked"     -> "filled"
      [] status = "deferred"    -> "snow"
      [] status = "closed"      -> "check"
      [] OTHER                  -> status

_title_cell(title, priority) == <<title, PriorityStyle(priority)[2]>>

\* dt[:10], the day of a timestamp: two writes fall on one day
_short_date(dt) == IF dt = 0 THEN 0 ELSE (dt + 1) \div 2

\* AVAILABLE_COLUMNS[col_key].getter(issue), "" for an unknown column
Cell(col_key, issue) ==
    CASE col_key = "id"       -> issue.id
      [] col_key = "priority" -> _priority_cell(issue.priority)
      [] col_key = "status"   -> _status_cell(issue.status)
      [] col_key = "type"     -> issue.issue_type
      [] col_key = "title"    -> _title_cell(issue.title, issue.priority)
      [] col_key = "assignee" -> OrElse(issue.owner, issue.assignee)
      [] col_key = "updated"  -> _short_date(issue.updated_at)
      [] OTHER                -> <<>>

_get_row_cells(issue) ==
    [c \in Range(DEFAULT_COLUMNS) |-> Cell(c, issue)]

RowKeys(rows) == {rows[i].key : i \in 1..Len(rows)}
RowIndex(rows, key) == CHOOSE i \in 1..Len(rows) : rows[i].key = key
ClampCursor(rows, row) == Max(0, Min(row, Len(rows) - 1))

\* A table is <<rows, cursor_row, calls>>: calls are the calls that changed
\* it (a call that raises changes nothing), as [op, key, col]
Call(op, key, col) == [op |-> op, key |-> key, col |-> col]

\* a remove_row that always raises: the except clause swallows it
RemoveRowRaises(tbl, key) == tbl

\* DataTable.remove_row inside try/except: a missing key changes nothing
remove_row(tbl, key) ==
    IF key \notin RowKeys(tbl[1]) THEN tbl
    ELSE LET rows == RemoveAt(tbl[1], RowIndex(tbl[1], key))
         IN <<rows, ClampCursor(rows, tbl[2]),
              Append(tbl[3], Call("remove_row", key, ""))>>

\* the row taken out and added again at the bottom with its new cells
ReplaceRow(tbl, issue) ==
    IF issue.id \notin RowKeys(tbl[1]) THEN tbl
    ELSE <<Append(RemoveAt(tbl[1], RowIndex(tbl[1], issue.id)),
                  [key |-> issue.id, cells |-> _get_row_cells(issue)]),
           tbl[2],
           tbl[3] \o <<Call("remove_row", issue.id, ""),
                       Call("add_row", issue.id, "")>>>>

\* DataTable.update_cell inside try/except, for every active column
update_cells(tbl, issue) ==
    IF issue.id \notin RowKeys(tbl[1]) THEN tbl
    ELSE <<[tbl[1] EXCEPT ![RowIndex(tbl[1], issue.id)].cells =
                _get_row_cells(issue)],
           tbl[2],
           tbl[3] \o [i \in 1..Len(DEFAULT_COLUMNS) |->
                         Call("update_cell", issue.id, DEFAULT_COLUMNS[i])]>>

RECURSIVE RemoveRows(_, _)
\* for rid in removed_ids: table.remove_row(rid); once the table is empty
\* every further remove_row raises and changes nothing
RemoveRows(tbl, rids) ==
    IF rids = <<>> THEN tbl
    ELSE IF Len(rids) = 1 THEN remove_row(tbl, rids[1])
    ELSE LET half  == Len(rids) \div 2
             first == RemoveRows(tbl, SubSeq(rids, 1, half))
         IN IF Len(first[1]) = 0 THEN first
            ELSE RemoveRows(first, SubSeq(rids, half + 1, Len(rids)))

RECURSIVE UpdateChanged(_, _, _)
\* for issue in self._filtered_issues: if issue.id in changed_ids: update
\* cells; on an empty table every update_cell raises and changes nothing
UpdateChanged(tbl, filtered, changed_ids) ==
    IF filtered = <<>> THEN tbl
    ELSE IF Len(filtered) = 1
         THEN IF filtered[1].id \in changed_ids
              THEN update_cells(tbl, filtered[1]) ELSE tbl
    ELSE LET half  == Len(filtered) \div 2
             first == UpdateChanged(tbl, SubSeq(filtered, 1, half),
                                    changed_ids)
         IN IF Len(first[1]) = 0 THEN first
            ELSE UpdateChanged(first,
                               SubSeq(filtered, half + 1, Len(filtered)),
                               changed_ids)

\* _populate_table without table.clear(): the rows are added below the old
PopulateWithoutClear(tbl, filtered) ==
    <<tbl[1] \o [i \in 1..Len(filtered) |->
                    [key |-> filtered[i].id,
                     cells |-> _get_row_cells(filtered[i])]],
      tbl[2],
      tbl[3] \o [i \in 1..Len(filtered) |-> Call("add_row", filtered[i].id, "")]>>

\* BeadsTuiApp._populate_table: clear, add a row per filtered issue, put the
\* cursor back on the issue it was on
_populate_table(tbl, filtered) ==
    LET selected_id == IF Len(tbl[1]) > 0 /\ tbl[2] + 1 \in 1..Len(tbl[1])
                       THEN tbl[1][tbl[2] + 1].key ELSE None
        rows == [i \in 1..Len(filtered) |->
                    [key |-> filtered[i].id, cells |-> _get_row_cells(filtered[i])]]
        hits == {i \in 1..Len(filtered) : filtered[i].id = selected_id}
    IN <<rows,
         IF selected_id # None /\ hits # {}
         THEN (CHOOSE i \in hits : \A j \in hits : i <= j) - 1 ELSE 0,
         tbl[3] \o <<Call("clear", None, "")>>
                \o [i \in 1..Len(filtered) |-> Call("add_row", filtered[i].id, "")]>>

(***************************************************************************)
(* BdClient.list_issues(all_=True): `bd list --all --limit 50 --json`.     *)
(***************************************************************************)
LIST_LIMIT == 50

Take(s, n) == SubSeq(s, 1, Min(n, Len(s)))

\* what `bd list --all` prints: the records of the store, by id
RECURSIVE StoreList(_)
StoreList(n) ==
    IF n = 0 THEN <<>>
    ELSE IF store[n].life # "live" THEN StoreList(n - 1)
         ELSE Append(StoreList(n - 1), store[n].issue)

list_issues == Take(StoreList(Cardinality(DOMAIN store)), LIST_LIMIT)

(***************************************************************************)
(* Coroutines in flight.  A cycle is one run of refresh_data (from a timer *)
(* callback or from the task _fire_refresh_from_watcher creates) or of the *)
(* worker _load_issues.  pc is "created" until the task first runs and     *)
(* "fetching" while it awaits list_issues; result is what the bd           *)
(* subprocess handed back.  The cycles that are fetching stand in the      *)
(* order in which they began to.  overtaken and stopped are observers:     *)
(* whether a cycle that began later has reconciled already, and whether    *)
(* stop_live_reload ran while this one was fetching.                       *)
(***************************************************************************)
Pending      == [kind |-> "pending", issues |-> <<>>]
BdError      == [kind |-> "BdError", issues |-> <<>>]
Returned(is) == [kind |-> "ok", issues |-> is]

NewCycle(origin, timer) ==
    [origin |-> origin, timer |-> timer, pc |-> "created", result |-> Pending,
     overtaken |-> FALSE, stopped |-> FALSE]

Fetching(cs) == {j \in 1..Len(cs) : cs[j].pc = "fetching"}

\* coroutine j reaches `await self.client.list_issues(all_=True)`
BeginFetch(cs, j) == Append(RemoveAt(cs, j), [cs[j] EXCEPT !.pc = "fetching"])

\* coroutine j ends without reconciling (it returns early, or is cancelled)
Drop(cs, j) == RemoveAt(cs, j)

\* coroutine j ends having diffed and applied its result
Reconciled(cs, j) ==
    RemoveAt([i \in 1..Len(cs) |->
                 IF i < j /\ cs[i].pc = "fetching"
                 THEN [cs[i] EXCEPT !.overtaken = TRUE] ELSE cs[i]], j)

NotForced(c) == c.origin # "forced"

\* no function is being taken alone
NoDiff  == [added |-> <<>>, changed |-> <<>>, removed_ids |-> <<>>]
NoProbe == [old |-> <<>>, new |-> <<>>, called |-> FALSE, out |-> NoDiff]

(***************************************************************************)
(* The state after BeadsTuiApp.__init__ (show_all = False), before the     *)
(* application is mounted.                                                 *)
(***************************************************************************)
Constructed ==
    /\ store = [i \in Ids |-> Slot("none", i)]
    /\ timers = {}
    /\ watcher_tasks = {}
    /\ call_later = {}
    /\ cycles = <<>>
    /\ _refresh_paused = FALSE
    /\ _refresh_timer = None
    /\ _watcher_task = None
    /\ _debounce_handle = None
    /\ mounted = FALSE
    /\ client = NoneStr
    /\ _issues = <<>>
    /\ _filtered_issues = <<>>
    /\ _current_filters = [search |-> <<>>,
                           statuses |-> Some({"open", "in_progress"}),
                           priority |-> Nothing, type |-> <<>>]
    /\ _sort_column = "priority"
    /\ _sort_reverse = FALSE
    /\ table_rows = <<>>
    /\ cursor_row = 0
    /\ table_calls = <<>>
    /\ sinceSignal = DEBOUNCE_DELAY + 1
    /\ burstLen = 0
    /\ missed = FALSE

Init == Constructed /\ probe = NoProbe

(***************************************************************************)
(* The external bd process writes the store.  updated_at changes with      *)
(* every write; a deleted id is not used again.                            *)
(***************************************************************************)
NewIssue(id, status) ==
    Issue(id, 1, status, DEFAULT_PRIORITY, <<"a">>, <<"A">>, <<>>, <<>>)

StoreWritten == missed' = (missed \/ _refresh_paused)

external_create ==
    \E id \in Ids, st \in Statuses :
        /\ store[id].life = "none"
        /\ store' = [store EXCEPT ![id] =
                        [life |-> "live", issue |-> NewIssue(id, st)]]
        /\ StoreWritten
        /\ table_calls' = <<>>
        /\ UNCHANGED <<timers, watcher_tasks, call_later, cycles, mixinVars, dataVars, viewCfgVars, tableVars, appVars, probe,
                       sinceSignal, burstLen>>

external_update ==
    \E id \in Ids, st \in Statuses :
        /\ store[id].life = "live"
        /\ store[id].issue.updated_at < MaxRev
        /\ store' = [store EXCEPT ![id].issue.updated_at = @ + 1,
                                  ![id].issue.status = st]
        /\ StoreWritten
        /\ table_calls' = <<>>
        /\ UNCHANGED <<timers, watcher_tasks, call_later, cycles, mixinVars, dataVars, viewCfgVars, tableVars, appVars, probe,
                       sinceSignal, burstLen>>

external_delete ==
    \E id \in Ids :
        /\ store[id].life = "live"
        /\ store' = [store EXCEPT ![id] = Slot("gone", id)]
        /\ StoreWritten
        /\ table_calls' = <<>>
        /\ UNCHANGED <<timers, watcher_tasks, call_later, cycles, mixinVars, dataVars, viewCfgVars, tableVars, appVars, probe,
                       sinceSignal, burstLen>>

(***************************************************************************)
(* LiveReloadMixin: the public control API.                                *)
(*                                                                         *)
(* The configuration is the one in which a watcher can be started:         *)
(* watchfiles imported and WATCH_PATH set by the host class.  Whether the  *)
(* path exists is read at every start, so the runs of the other            *)
(* configurations (polling only) are the runs of this one in which the     *)
(* path is missing.                                                        *)
(***************************************************************************)
_WATCHFILES_AVAILABLE == TRUE
WATCH_PATH == ".beads"

_resolve_watch_path(path_exists) ==
    IF WATCH_PATH = NoneStr THEN NoneStr
    ELSE IF ~path_exists THEN NoneStr
    ELSE WATCH_PATH

\* start_live_reload with a watcher but without its safety-net timer
StartWithoutFallback(path_exists) ==
    IF _WATCHFILES_AVAILABLE /\ _resolve_watch_path(path_exists) # NoneStr
    THEN /\ watcher_tasks' = watcher_tasks \cup {Fresh(watcher_tasks)}
         /\ _watcher_task' = Fresh(watcher_tasks)
         /\ UNCHANGED <<timers, _refresh_timer>>
    ELSE /\ timers' = timers \cup {[id |-> Fresh(ObjIds(timers)),
                                    interval |-> REFRESH_INTERVAL]}
         /\ _refresh_timer' = Fresh(ObjIds(timers))
         /\ UNCHANGED <<watcher_tasks, _watcher_task>>

\* start_live_reload with no polling timer when there is nothing to watch
StartWatcherOnly(path_exists) ==
    IF _WATCHFILES_AVAILABLE /\ _resolve_watch_path(path_exists) # NoneStr
    THEN /\ watcher_tasks' = watcher_tasks \cup {Fresh(watcher_tasks)}
         /\ _watcher_task' = Fresh(watcher_tasks)
         /\ timers' = timers \cup {[id |-> Fresh(ObjIds(timers)),
                                    interval |-> FALLBACK_INTERVAL]}
         /\ _refresh_timer' = Fresh(ObjIds(timers))
    ELSE UNCHANGED <<timers, _refresh_timer, watcher_tasks, _watcher_task>>

\* the body of start_live_reload: the handles it held are overwritten
StartLiveReload(path_exists) ==
    LET watch_path == _resolve_watch_path(path_exists)
        tid == Fresh(ObjIds(timers))
    IN IF _WATCHFILES_AVAILABLE /\ watch_path # NoneStr
       THEN /\ watcher_tasks' = watcher_tasks \cup {Fresh(watcher_tasks)}
            /\ _watcher_task' = Fresh(watcher_tasks)
            /\ timers' = timers \cup {[id |-> tid, interval |-> FALLBACK_INTERVAL]}
            /\ _refresh_timer' = tid
       ELSE /\ timers' = timers \cup {[id |-> tid, interval |-> REFRESH_INTERVAL]}
            /\ _refresh_timer' = tid
            /\ UNCHANGED <<watcher_tasks, _watcher_task>>

start_live_reload ==
    /\ mounted
    /\ Cardinality(timers) < MaxTimers
    /\ \E path_exists \in BOOLEAN : StartLiveReload(path_exists)
    /\ table_calls' = <<>>
    /\ UNCHANGED <<store, call_later, cycles, _refresh_paused,
                   _debounce_handle, dataVars, viewCfgVars, tableVars, appVars, probe,
                   obsVars>>

\* Timer.stop() cancels the timer's task, and with it the callback the task
\* is awaiting; tasks and workers the timer does not own run on
stop_live_reload ==
    /\ mounted
    /\ watcher_tasks' = watcher_tasks \ {_watcher_task}
    /\ _watcher_task' = None
    /\ timers' = {t \in timers : t.id # _refresh_timer}
    /\ _refresh_timer' = None
    /\ call_later' = {h \in call_later : h.id # _debounce_handle}
    /\ _debounce_handle' = None
    /\ LET Survives(c) == ~(c.origin = "timer" /\ c.timer = _refresh_timer)
           kept == SelectSeq(cycles, Survives)
       IN cycles' = [i \in 1..Len(kept) |->
                        [kept[i] EXCEPT !.stopped = @ \/ kept[i].pc = "fetching"]]
    /\ sinceSignal' = IF call_later' = {} THEN DEBOUNCE_DELAY + 1 ELSE sinceSignal
    /\ burstLen' = IF call_later' = {} THEN 0 ELSE burstLen
    /\ table_calls' = <<>>
    /\ UNCHANGED <<store, _refresh_paused, dataVars, viewCfgVars,
                   tableVars, appVars, probe, missed>>

pause_refresh ==
    /\ mounted
    /\ _refresh_paused' = TRUE
    /\ call_later' = {[h EXCEPT !.over_pause = TRUE] : h \in call_later}
    /\ table_calls' = <<>>
    /\ UNCHANGED <<store, timers, watcher_tasks, cycles, _refresh_timer,
                   _watcher_task, _debounce_handle, dataVars, viewCfgVars,
                   tableVars, appVars, probe, obsVars>>

\* resume_refresh followed by a forced reload
ResumeAndReload ==
    /\ mounted
    /\ _refresh_paused' = FALSE
    /\ cycles' = Append(SelectSeq(cycles, NotForced), NewCycle("forced", 0))
    /\ table_calls' = <<>>
    /\ UNCHANGED <<store, timers, watcher_tasks, call_later, 
                   _refresh_timer, _watcher_task, _debounce_handle, dataVars,
                   viewCfgVars, tableVars, appVars, probe, obsVars>>

resume_refresh ==
    /\ mounted
    /\ _refresh_paused' = FALSE
    /\ table_calls' = <<>>
    /\ UNCHANGED <<envVars, _refresh_timer, _watcher_task,
                   _debounce_handle, dataVars, viewCfgVars, tableVars, appVars, probe,
                   obsVars>>

(***************************************************************************)
(* The debouncer.  _schedule_debounced_refresh gives the handles the loop  *)
(* holds afterwards and the new _debounce_handle.                          *)
(***************************************************************************)
\* loop.call_later(DEBOUNCE_DELAY, ...): the TimerHandle.  over_pause is an
\* observer: whether pause_refresh ran while the handle was pending
Handle(hid) == [id |-> hid, left |-> DEBOUNCE_DELAY, over_pause |-> FALSE]

\* a new timer is scheduled and the pending one is left to fire as well
ScheduleWithoutCancel ==
    LET hid == Fresh(ObjIds(call_later))
    IN <<call_later \cup {Handle(hid)}, hid>>

\* a signal that finds the debouncer armed leaves the pending timer as it is
ScheduleFromFirst ==
    IF _debounce_handle # None THEN <<call_later, _debounce_handle>>
    ELSE LET hid == Fresh(ObjIds(call_later))
         IN <<call_later \cup {Handle(hid)}, hid>>

_schedule_debounced_refresh ==
    LET kept == IF _debounce_handle # None
                THEN {h \in call_later : h.id # _debounce_handle}
                ELSE call_later
        hid  == Fresh(ObjIds(kept))
    IN <<kept \cup {Handle(hid)}, hid>>

\* one turn of the `async for` of _run_file_watcher: awatch yields a change
_run_file_watcher ==
    \E w \in watcher_tasks :
        IF _refresh_paused
        THEN UNCHANGED vars
        ELSE /\ call_later' = _schedule_debounced_refresh[1]
             /\ _debounce_handle' = _schedule_debounced_refresh[2]
             /\ sinceSignal' = 0
             /\ burstLen' = IF call_later # {}
                            THEN Min(burstLen + 1, MaxBurst) ELSE 1
             /\ table_calls' = <<>>
             /\ UNCHANGED <<store, timers, watcher_tasks, cycles, 
                            _refresh_paused, _refresh_timer, _watcher_task,
                            dataVars, viewCfgVars, tableVars, appVars, probe, missed>>

\* a quarter second passes; a handle that is due runs before time moves on
Tick ==
    /\ \A h \in call_later : h.left > 0
    /\ call_later' = {[h EXCEPT !.left = @ - 1] : h \in call_later}
    /\ sinceSignal' = Min(sinceSignal + 1, DEBOUNCE_DELAY + 1)
    /\ burstLen' = IF call_later = {} THEN 0 ELSE burstLen
    /\ table_calls' = <<>>
    /\ UNCHANGED <<store, timers, watcher_tasks, cycles, mixinVars,
                   dataVars, viewCfgVars, tableVars, appVars, probe, missed>>

\* the loop runs a due handle: the callback creates the task of _do_refresh
_fire_refresh_from_watcher ==
    \E h \in call_later :
        /\ h.left = 0
        /\ Len(cycles) < MaxInFlight
        /\ call_later' = call_later \ {h}
        /\ _debounce_handle' = None
        /\ cycles' = Append(cycles, NewCycle("watcher", 0))
        /\ table_calls' = <<>>
        /\ UNCHANGED <<store, timers, watcher_tasks, _refresh_paused,
                       _refresh_timer, _watcher_task, dataVars, viewCfgVars,
                       tableVars, appVars, probe, obsVars>>

(***************************************************************************)
(* _do_refresh and the head of refresh_data, up to the first await.        *)
(***************************************************************************)
\* _do_refresh without `if self._refresh_paused: return`
GateMissing == FALSE

\* `if self._refresh_paused: return`
PauseGate == _refresh_paused

\* refresh_data / _load_issues: `if self.client is None: return`
NoClient == client = NoneStr

\* the task created by _fire_refresh_from_watcher runs _do_refresh
_do_refresh_task ==
    \E j \in 1..Len(cycles) :
        /\ cycles[j].origin = "watcher"
        /\ cycles[j].pc = "created"
        /\ cycles' = IF PauseGate \/ NoClient
                     THEN Drop(cycles, j)
                     ELSE BeginFetch(cycles, j)
        /\ table_calls' = <<>>
        /\ UNCHANGED <<store, timers, watcher_tasks, call_later, mixinVars, dataVars, viewCfgVars, tableVars, appVars, probe,
                       obsVars>>

\* _do_refresh as the callback of timer t, up to the await in refresh_data:
\* the coroutines in flight when it returns or awaits
TimerCallback(t) ==
    IF PauseGate \/ NoClient
    THEN cycles
    ELSE BeginFetch(Append(cycles, NewCycle("timer", t.id)), Len(cycles) + 1)

\* the timer's task is not awaiting its callback
CanTick(t) ==
    /\ \A c \in Range(cycles) : ~(c.origin = "timer" /\ c.timer = t.id)
    /\ Len(cycles) < MaxInFlight

\* an interval timer ticks and awaits _do_refresh; it ticks again only when
\* the callback has returned
_do_refresh_timer ==
    \E t \in timers :
        /\ CanTick(t)
        /\ cycles' = TimerCallback(t)
        /\ table_calls' = <<>>
        /\ UNCHANGED <<store, timers, watcher_tasks, call_later, mixinVars, dataVars, viewCfgVars, tableVars, appVars, probe,
                       obsVars>>

(***************************************************************************)
(* _load_issues is a worker with exclusive=True: calling it cancels the    *)
(* workers of its group and creates a new one.                             *)
(***************************************************************************)
LoadIssuesCall == Append(SelectSeq(cycles, NotForced), NewCycle("forced", 0))

action_refresh ==
    /\ mounted
    /\ Len(SelectSeq(cycles, NotForced)) < MaxInFlight
    /\ cycles' = LoadIssuesCall
    /\ table_calls' = <<>>
    /\ UNCHANGED <<store, timers, watcher_tasks, call_later, 
                   mixinVars, dataVars, viewCfgVars, tableVars, appVars, probe,
                   obsVars>>

\* on_mount: the client is built (or not), then _load_issues() and
\* start_live_reload()
on_mount ==
    /\ ~mounted
    /\ mounted' = TRUE
    /\ \E found \in BOOLEAN : client' = IF found THEN "BdClient" ELSE NoneStr
    /\ cycles' = LoadIssuesCall
    /\ \E path_exists \in BOOLEAN : StartLiveReload(path_exists)
    /\ table_calls' = <<>>
    /\ UNCHANGED <<store, call_later, _refresh_paused,
                   _debounce_handle, dataVars, viewCfgVars, tableVars, probe,
                   obsVars>>

\* the worker first runs: _load_issues up to its await
_load_issues_starts ==
    \E j \in 1..Len(cycles) :
        /\ cycles[j].origin = "forced"
        /\ cycles[j].pc = "created"
        /\ cycles' = IF NoClient THEN Drop(cycles, j) ELSE BeginFetch(cycles, j)
        /\ table_calls' = <<>>
        /\ UNCHANGED <<store, timers, watcher_tasks, call_later, mixinVars, dataVars, viewCfgVars, tableVars, appVars, probe,
                       obsVars>>

(***************************************************************************)
(* The bd subprocess of a fetch ends: its output is the store as it is     *)
(* now, or _run_bd raises BdCommandError.                                  *)
(***************************************************************************)
list_issues_returns ==
    \E j \in Fetching(cycles) :
        /\ cycles[j].result = Pending
        /\ cycles' = [cycles EXCEPT ![j].result = Returned(list_issues)]
        /\ missed' = IF cycles[j].origin = "forced" THEN missed ELSE FALSE
        /\ table_calls' = <<>>
        /\ UNCHANGED <<store, timers, watcher_tasks, call_later, mixinVars, dataVars, viewCfgVars, tableVars, appVars, probe,
                       sinceSignal, burstLen>>

list_issues_raises ==
    \E j \in Fetching(cycles) :
        /\ cycles[j].result = Pending
        /\ cycles' = [cycles EXCEPT ![j].result = BdError]
        /\ table_calls' = <<>>
        /\ UNCHANGED <<store, timers, watcher_tasks, call_later, mixinVars, dataVars, viewCfgVars, tableVars, appVars, probe,
                       obsVars>>

(***************************************************************************)
(* refresh_data after its await: diff against the stored snapshot and      *)
(* apply.  RefreshData gives <<_issues, _filtered_issues, table>>.         *)
(***************************************************************************)
\* refresh_data that installs and rebuilds whatever the diff says
RefreshAlwaysRebuild(new_issues) ==
    LET filtered == _apply_filters_and_sort(
                        new_issues, _current_filters, _sort_column,
                        _sort_reverse)
    IN <<new_issues, filtered,
         _populate_table(<<table_rows, cursor_row, <<>>>>, filtered)>>

\* refresh_data that installs the snapshot and leaves the filtered list
\* for the next caller to compute
InstallWithoutApply(new_issues) ==
    LET d == diff_issues(_issues, new_issues)
        tbl == <<table_rows, cursor_row, <<>>>>
    IN IF d.added = <<>> /\ d.changed = <<>> /\ d.removed_ids = <<>>
       THEN <<_issues, _filtered_issues, tbl>>
       ELSE <<new_issues, _filtered_issues, RemoveRows(tbl, d.removed_ids)>>

RefreshData(new_issues) ==
    LET d == diff_issues(_issues, new_issues)
        tbl == <<table_rows, cursor_row, <<>>>>
    IN IF d.added = <<>> /\ d.changed = <<>> /\ d.removed_ids = <<>>
       THEN <<_issues, _filtered_issues, tbl>>
       ELSE LET filtered == _apply_filters_and_sort(
                                new_issues, _current_filters, _sort_column,
                                _sort_reverse)
                t1 == RemoveRows(tbl, d.removed_ids)
                t2 == UpdateChanged(t1, filtered, IdsOf(d.changed))
                t3 == IF d.added # <<>> THEN _populate_table(t2, filtered)
                      ELSE t2
            IN <<new_issues, filtered, t3>>

refresh_data ==
    \E j \in Fetching(cycles) :
        /\ cycles[j].origin \in {"timer", "watcher"}
        /\ cycles[j].result # Pending
        /\ IF cycles[j].result = BdError
           THEN /\ cycles' = Drop(cycles, j)
                /\ table_calls' = <<>>
                /\ UNCHANGED <<dataVars, tableVars>>
           ELSE /\ cycles' = Reconciled(cycles, j)
                /\ _issues' = RefreshData(cycles[j].result.issues)[1]
                /\ _filtered_issues' = RefreshData(cycles[j].result.issues)[2]
                /\ table_rows' = RefreshData(cycles[j].result.issues)[3][1]
                /\ cursor_row' = RefreshData(cycles[j].result.issues)[3][2]
                /\ table_calls' = RefreshData(cycles[j].result.issues)[3][3]
        /\ UNCHANGED <<store, timers, watcher_tasks, call_later, mixinVars, viewCfgVars, appVars, probe, obsVars>>

(***************************************************************************)
(* _load_issues after its await: on BdError the list is empty; the result  *)
(* is installed and the table rebuilt.                                     *)
(***************************************************************************)
LoadIssues(result) ==
    LET issues == IF result = BdError THEN <<>> ELSE result.issues
        filtered == _apply_filters_and_sort(issues, _current_filters,
                                            _sort_column, _sort_reverse)
    IN <<issues, filtered,
         _populate_table(<<table_rows, cursor_row, <<>>>>, filtered)>>

_load_issues ==
    \E j \in Fetching(cycles) :
        /\ cycles[j].origin = "forced"
        /\ cycles[j].result # Pending
        /\ cycles' = IF cycles[j].result = BdError THEN Drop(cycles, j)
                     ELSE Reconciled(cycles, j)
        /\ _issues' = LoadIssues(cycles[j].result)[1]
        /\ _filtered_issues' = LoadIssues(cycles[j].result)[2]
        /\ table_rows' = LoadIssues(cycles[j].result)[3][1]
        /\ cursor_row' = LoadIssues(cycles[j].result)[3][2]
        /\ table_calls' = LoadIssues(cycles[j].result)[3][3]
        /\ UNCHANGED <<store, timers, watcher_tasks, call_later, mixinVars, viewCfgVars, appVars, probe, obsVars>>

Next ==
    \/ external_create
    \/ external_update
    \/ external_delete
    \/ on_mount
    \/ start_live_reload
    \/ stop_live_reload
    \/ pause_refresh
    \/ resume_refresh
    \/ _run_file_watcher
    \/ Tick
    \/ _fire_refresh_from_watcher
    \/ _do_refresh_task
    \/ _do_refresh_timer
    \/ action_refresh
    \/ _load_issues_starts
    \/ list_issues_returns
    \/ list_issues_raises
    \/ refresh_data
    \/ _load_issues

Spec == Init /\ [][Next]_vars

(***************************************************************************)
(* What a step does to the cycles, as the properties below read it.        *)
(***************************************************************************)
\* the cycles that a timer tick or a debounce fire started and that fetch
NaturalFetches(cs) == {j \in Fetching(cs) : cs[j].origin # "forced"}

\* this step takes a timer tick or a watcher task into refresh_data
NaturalBegins ==
    Cardinality(NaturalFetches(cycles')) > Cardinality(NaturalFetches(cycles))

\* this step is the end of the fetching coroutine j: it returns
Completes(j) == cycles' \in {Drop(cycles, j), Reconciled(cycles, j)}

\* the snapshot, the filtered list and the table stay as they are
ViewUnchanged == UNCHANGED <<_issues, _filtered_issues, table_rows, cursor_row>>

\* this step runs the callback of a due debounce handle
Fires ==
    /\ \E h \in call_later : h.left = 0 /\ call_later' = call_later \ {h}
    /\ Len(cycles') = Len(cycles) + 1

(***************************************************************************)
(* C1: at most one fetch-and-reconcile cycle is in flight at any time,     *)
(* whichever of timer tick, debounce fire and forced refresh started it.   *)
(* The code keeps no flag that says a cycle is running: a worker of        *)
(* _load_issues and a refresh_data await their subprocesses side by side.  *)
(***************************************************************************)
C1_SingleFlight == Cardinality(Fetching(cycles)) <= 1

(***************************************************************************)
(* C2: results are installed in the order the fetches began: a cycle whose *)
(* fetch returned and that a later one has overtaken (the later one has    *)
(* reconciled already) ends without overwriting the snapshot and the       *)
(* table with its older result.                                            *)
(***************************************************************************)
C2_NoStaleInstall ==
    [][\A j \in Fetching(cycles) :
          (cycles[j].overtaken /\ cycles[j].result.kind = "ok" /\ Completes(j))
              => ViewUnchanged]_vars

(***************************************************************************)
(* C3: a cycle whose fetch failed with BdError ends leaving _issues,       *)
(* _filtered_issues and the table rows exactly as they were.               *)
(***************************************************************************)
C3_FailureKeepsView ==
    [][\A j \in Fetching(cycles) :
          (cycles[j].result = BdError /\ Completes(j)) => ViewUnchanged]_vars

(***************************************************************************)
(* C4: the signals of one burst (each arrives while the timer armed by the *)
(* one before is pending) lead to one fire: while the burst is under way   *)
(* exactly one timer is pending and it is due DEBOUNCE_DELAY after the     *)
(* last signal; the fire happens then, not earlier, and leaves no timer    *)
(* behind that could fire a second time.                                   *)
(***************************************************************************)
C4_BurstPending ==
    call_later # {} =>
        /\ burstLen >= 1
        /\ \A h \in call_later : h.left = DEBOUNCE_DELAY - sinceSignal

C5_OnePendingTimer ==
    /\ Cardinality(call_later) <= 1
    /\ (_debounce_handle # None) <=> (call_later # {})
    /\ \A h \in call_later : h.id = _debounce_handle

\* a signal has arrived while the debouncer was armed
C5_Witness ==
    /\ burstLen >= 2
    /\ _debounce_handle # None
    /\ \E h \in call_later : h.left = DEBOUNCE_DELAY

(***************************************************************************)
(* C6: no timer tick and no debounce fire takes a coroutine into           *)
(* refresh_data in a state where _refresh_paused is set.                   *)
(***************************************************************************)
C6_PausedSuppressesFiring == [][NaturalBegins => ~_refresh_paused]_vars

\* paused, with a client and a timer, and the task of a debounce fire about
\* to run _do_refresh
C6_Witness ==
    /\ _refresh_paused
    /\ client # NoneStr
    /\ _refresh_timer # None
    /\ \E j \in 1..Len(cycles) :
           cycles[j].origin = "watcher" /\ cycles[j].pc = "created"

(***************************************************************************)
(* The application left running: live reload is started once, by          *)
(* on_mount, and not stopped, and the user asks for no reload; records are *)
(* written to the store and none is deleted.  The event loop runs every    *)
(* task that is ready, an interval timer keeps ticking whatever else is in *)
(* flight, and a fetch that is tried again and again succeeds in the end.  *)
(***************************************************************************)
LiveNext ==
    \/ external_create
    \/ external_update
    \/ on_mount
    \/ pause_refresh
    \/ resume_refresh
    \/ _run_file_watcher
    \/ Tick
    \/ _fire_refresh_from_watcher
    \/ _do_refresh_task
    \/ _do_refresh_timer
    \/ _load_issues_starts
    \/ list_issues_returns
    \/ list_issues_raises
    \/ refresh_data
    \/ _load_issues

LiveSpec ==
    /\ Init
    /\ [][LiveNext]_vars
    /\ SF_vars(_do_refresh_timer)
    /\ SF_vars(list_issues_returns)
    /\ WF_vars(_do_refresh_task)
    /\ WF_vars(_load_issues_starts)
    /\ WF_vars(refresh_data)
    /\ WF_vars(_load_issues)

(***************************************************************************)
(* C7: a write to the store made while refresh was paused is not lost: if  *)
(* from some point on the application has a client and is not paused       *)
(* again, then a cycle started by a timer tick or a watcher signal, not by *)
(* a forced reload, reads the store after that write.                      *)
(***************************************************************************)
C7_PausedChangeIsFetched ==
    <>[](~_refresh_paused /\ client # NoneStr) => [](missed => <>~missed)

\* resumed with a write made during the pause not yet read
C7_Witness == missed /\ ~_refresh_paused /\ client # NoneStr /\ mounted

(***************************************************************************)
(* C8: a step that clears _refresh_paused changes nothing else: no         *)
(* coroutine is created, no timer armed, snapshot, filtered list and table *)
(* stay.                                                                   *)
(***************************************************************************)
C8_ResumeChangesOnlyTheFlag ==
    [][(_refresh_paused /\ ~_refresh_paused') =>
          UNCHANGED <<envVars, _refresh_timer, _watcher_task, _debounce_handle,
                      dataVars, viewCfgVars, tableVars, appVars>>]_vars

\* resumed after the store was written during the pause: nothing in flight,
\* nothing armed, the snapshot still the one from before
C8_Witness ==
    /\ ~_refresh_paused
    /\ missed
    /\ cycles = <<>>
    /\ call_later = {}
    /\ _issues # list_issues

(***************************************************************************)
(* C9: while live reload is stopped (stop_live_reload has run and          *)
(* start_live_reload has not run since) the three handles are None and no  *)
(* timer tick, watcher signal or debounce fire takes a coroutine into      *)
(* refresh_data.                                                           *)
(***************************************************************************)
C9_StoppedStartsNothing ==
    [][(mounted /\ _refresh_timer = None /\ _refresh_timer' = None) =>
          /\ _watcher_task = None
          /\ _debounce_handle = None
          /\ ~NaturalBegins]_vars

(***************************************************************************)
(* C10: a timer or watcher cycle that was fetching when stop_live_reload   *)
(* ran ends without installing its snapshot and without touching the       *)
(* table.                                                                  *)
(***************************************************************************)
C10_StoppedFetchDiscarded ==
    [][\A j \in NaturalFetches(cycles) :
          (cycles[j].stopped /\ Completes(j)) => ViewUnchanged]_vars

(***************************************************************************)
(* C11: a debounce timer that was armed when pause_refresh ran does not    *)
(* fire: its callback never runs, also not when resume_refresh has been    *)
(* called before the deadline (stop_live_reload cancels the timer, which   *)
(* is no firing).  The code keeps the timer over the pause: the gate in    *)
(* _do_refresh drops the task only if the pause still lasts when it runs.  *)
(***************************************************************************)
C11_PauseCancelsDebounce ==
    [][\A h \in call_later :
          (h.over_pause /\ ~_refresh_paused /\ call_later' = call_later \ {h})
              => Len(cycles') # Len(cycles) + 1]_vars

(***************************************************************************)
(* diff_issues taken alone: it is called once on two snapshots, lists of   *)
(* issues with unique ids in any order, of up to MaxSnap records whose     *)
(* updated_at is one of MaxRev values.                                     *)
(***************************************************************************)
MaxSnap == 3

SnapIds == 1..MaxSnap

UniqueIds(s) == \A i, j \in 1..Len(s) : s[i].id = s[j].id => i = j

\* the lists of at most MaxSnap records of R in which no id is repeated
Snapshots(R) ==
    {s \in UNION {[1..k -> R] : k \in 0..MaxSnap} : UniqueIds(s)}

DiffRecords ==
    {Issue(id, rev, "open", DEFAULT_PRIORITY, <<"a">>, <<"A">>, <<>>, <<>>) :
        id \in SnapIds, rev \in 1..MaxRev}

DiffInit ==
    /\ Constructed
    /\ probe \in {[old |-> o, new |-> n, called |-> FALSE, out |-> NoDiff] :
                     o \in Snapshots(DiffRecords), n \in Snapshots(DiffRecords)}

diff_issues_called ==
    /\ ~probe.called
    /\ probe' = [probe EXCEPT !.called = TRUE,
                              !.out = diff_issues(probe.old, probe.new)]
    /\ UNCHANGED <<envVars, mixinVars, dataVars, viewCfgVars, tableVars,
                   table_calls, appVars, obsVars>>

DiffSpec == DiffInit /\ [][diff_issues_called]_vars

\* the ids of the three results of the call, and the record a snapshot has
\* for an id
AddedIds   == IdsOf(probe.out.added)
ChangedIds == IdsOf(probe.out.changed)
RemovedIds == Range(probe.out.removed_ids)
RecordOf(snap, id) == CHOOSE r \in Range(snap) : r.id = id

\* id is in both snapshots with the same updated_at
SameRevision(id) ==
    /\ id \in IdsOf(probe.old) \cap IdsOf(probe.new)
    /\ RecordOf(probe.old, id).updated_at = RecordOf(probe.new, id).updated_at

(***************************************************************************)
(* C12: the partition law.  added, changed and removed_ids are pairwise    *)
(* disjoint and name no id twice; an id of old or new is in one of them    *)
(* exactly when it is not in both snapshots with the same updated_at;      *)
(* changed ids are in both snapshots, removed ids only in old.             *)
(***************************************************************************)
C12_DiffPartition ==
    probe.called =>
        /\ AddedIds \cap ChangedIds = {}
        /\ AddedIds \cap RemovedIds = {}
        /\ ChangedIds \cap RemovedIds = {}
        /\ Len(probe.out.added) = Cardinality(AddedIds)
        /\ Len(probe.out.changed) = Cardinality(ChangedIds)
        /\ Len(probe.out.removed_ids) = Cardinality(RemovedIds)
        /\ AddedIds \cup ChangedIds \cup RemovedIds
               \subseteq IdsOf(probe.old) \cup IdsOf(probe.new)
        /\ \A id \in IdsOf(probe.old) \cup IdsOf(probe.new) :
               (id \in AddedIds \cup ChangedIds \cup RemovedIds)
                   <=> ~SameRevision(id)
        /\ ChangedIds \subseteq IdsOf(probe.old) \cap IdsOf(probe.new)
        /\ RemovedIds \subseteq IdsOf(probe.old) \ IdsOf(probe.new)

\* one call that finds an id of each kind: added, changed, removed
C12_Witness ==
    /\ probe.called
    /\ AddedIds # {} /\ ChangedIds # {} /\ RemovedIds # {}

(***************************************************************************)
(* C13: diff_issues gives exactly: added, the records of new whose id is   *)
(* not in old; changed, the records of new whose id is in old with another *)
(* updated_at (greater or smaller); removed_ids, the ids of old not in     *)
(* new.  As sets these do not depend on the order of the two lists.  With  *)
(* old empty every record of new is added and nothing else is reported.    *)
(***************************************************************************)
C13_DiffExact ==
    probe.called =>
        /\ Range(probe.out.added) =
               {r \in Range(probe.new) : r.id \notin IdsOf(probe.old)}
        /\ Range(probe.out.changed) =
               {r \in Range(probe.new) :
                   /\ r.id \in IdsOf(probe.old)
                   /\ r.updated_at # RecordOf(probe.old, r.id).updated_at}
        /\ RemovedIds = IdsOf(probe.old) \ IdsOf(probe.new)
        /\ probe.old = <<>> =>
               /\ Range(probe.out.added) = Range(probe.new)
               /\ probe.out.changed = <<>>
               /\ probe.out.removed_ids = <<>>

\* a record whose updated_at went back is reported as changed, by a call on
\* lists that are not in the order of the ids
C13_Witness ==
    /\ probe.called
    /\ \E r \in Range(probe.out.changed) :
           r.updated_at < RecordOf(probe.old, r.id).updated_at
    /\ \E i \in 1..(Len(probe.new) - 1) : probe.new[i].id > probe.new[i + 1].id
    /\ AddedIds # {}

(***************************************************************************)
(* C14: idempotence.  diff_issues(S, S) reports nothing: added, changed    *)
(* and removed_ids are all empty.                                          *)
(***************************************************************************)
C14_DiffIdempotent ==
    (probe.called /\ probe.old = probe.new) => probe.out = NoDiff

\* a call on twice the same snapshot of two records or more
C14_Witness ==
    /\ probe.called
    /\ probe.old = probe.new
    /\ Len(probe.old) >= 2

(***************************************************************************)
(* One refresh cycle taken alone.  The application has loaded the snapshot *)
(* old under a status filter (the one of __init__, or "All") and shows it, *)
(* the cursor on any row; the refresh_data a timer tick started has        *)
(* fetched the snapshot new and now diffs and applies it.  Snapshots are   *)
(* lists of up to MaxView records in any order; a record written again has *)
(* another updated_at, and maybe another status or priority.  probe keeps  *)
(* the two snapshots.                                                      *)
(***************************************************************************)
MaxView == 2

ViewIds == 1..MaxView

ViewRecords ==
    {Issue(id, rev, st, pr, <<"a">>, <<"A">>, <<>>, <<>>) :
        id \in ViewIds, rev \in 1..MaxRev, st \in {"open", "closed"},
        pr \in {1, 2}}

\* a record is not written without its updated_at changing
SameWrite(old, new) ==
    \A i \in 1..Len(old), j \in 1..Len(new) :
        (old[i].id = new[j].id /\ old[i].updated_at = new[j].updated_at)
            => old[i] = new[j]

\* the application shows the snapshot old, loaded under the status filter
\* statuses, and a refresh_data has fetched new from the store
Loaded(old, new, statuses) ==
    LET f == [search |-> <<>>, statuses |-> statuses,
              priority |-> Nothing, type |-> <<>>]
        filtered == _apply_filters_and_sort(old, f, "priority", FALSE)
    IN /\ SameWrite(old, new)
       /\ store = [i \in 1..Max(MaxView, MaxSnap) |->
                      IF i \in IdsOf(new)
                      THEN [life |-> "live",
                            issue |-> CHOOSE r \in Range(new) : r.id = i]
                      ELSE Slot("none", i)]
       /\ timers = {[id |-> 1, interval |-> REFRESH_INTERVAL]}
       /\ watcher_tasks = {}
       /\ call_later = {}
       /\ cycles = <<[NewCycle("timer", 1) EXCEPT
                         !.pc = "fetching", !.result = Returned(new)]>>
       /\ _refresh_paused = FALSE
       /\ _refresh_timer = 1
       /\ _watcher_task = None
       /\ _debounce_handle = None
       /\ mounted = TRUE
       /\ client = "BdClient"
       /\ _issues = old
       /\ _filtered_issues = filtered
       /\ _current_filters = f
       /\ _sort_column = "priority"
       /\ _sort_reverse = FALSE
       /\ table_rows = _populate_table(<<<<>>, 0, <<>>>>, filtered)[1]
       /\ cursor_row \in 0..Max(0, Len(filtered) - 1)
       /\ table_calls = <<>>
       /\ probe = [old |-> old, new |-> new, called |-> FALSE,
                   out |-> NoDiff]
       /\ sinceSignal = DEBOUNCE_DELAY + 1
       /\ burstLen = 0
       /\ missed = FALSE

ReconcileInit ==
    \E old \in Snapshots(ViewRecords), new \in Snapshots(ViewRecords),
       statuses \in {Some({"open", "in_progress"}), Nothing} :
        Loaded(old, new, statuses)

ReconcileSpec == ReconcileInit /\ [][refresh_data]_vars

\* this step is refresh_data diffing and applying the snapshot cycle j fetched
RefreshStep(j) ==
    /\ cycles[j].result.kind = "ok"
    /\ cycles' = Reconciled(cycles, j)

Fetched(j) == cycles[j].result.issues

\* the keys of the rows, top to bottom, and the ids of a list of issues
KeySeq(rows) == [i \in 1..Len(rows) |-> rows[i].key]
IdSeq(issues) == [i \in 1..Len(issues) |-> issues[i].id]

\* what _apply_filters_and_sort gives for a snapshot, as things are set
Pipeline(issues) ==
    _apply_filters_and_sort(issues, _current_filters, _sort_column,
                            _sort_reverse)

\* the ids and revisions of a snapshot
Revisions(issues) == {<<r.id, r.updated_at>> : r \in Range(issues)}

CallsOf(calls, op) == {i \in 1..Len(calls) : calls[i].op = op}

(***************************************************************************)
(* C15: a cycle whose fetch returns the ids and revisions the stored       *)
(* snapshot has makes no call that changes the table and leaves _issues,   *)
(* _filtered_issues, the rows and the cursor as they are.                  *)
(***************************************************************************)
C15_UnchangedTickIsSilent ==
    [][\A j \in NaturalFetches(cycles) :
          (RefreshStep(j) /\ Revisions(Fetched(j)) = Revisions(_issues))
              => table_calls' = <<>> /\ ViewUnchanged]_vars

\* the cycle has run on a snapshot of two records that bd listed in another
\* order than before: the stored list is still the old one
C15_Witness ==
    /\ cycles = <<>>
    /\ Revisions(probe.new) = Revisions(probe.old)
    /\ probe.new # probe.old
    /\ _issues = probe.old
    /\ Len(table_rows) >= 1

(***************************************************************************)
(* C16: after a refresh cycle no row is left whose id the new snapshot     *)
(* does not have: every such row went by a remove_row call, whether or not *)
(* the record passed the filter (for a removed id that has no row the call *)
(* raises and is ignored).                                                 *)
(***************************************************************************)
C16_RemovedRowsGo ==
    [][\A j \in NaturalFetches(cycles) :
          RefreshStep(j) =>
              /\ RowKeys(table_rows') \subseteq IdsOf(Fetched(j))
              /\ \A id \in RowKeys(table_rows) \ IdsOf(Fetched(j)) :
                     \E i \in CallsOf(table_calls', "remove_row") :
                         table_calls'[i].key = id]_vars

\* a record that had a row is gone from the store and another record
\* stays: the row went by remove_row, the table is not rebuilt
C16_Witness ==
    /\ cycles = <<>>
    /\ \E id \in IdsOf(probe.old) \ IdsOf(probe.new) :
           \E i \in CallsOf(table_calls, "remove_row") : table_calls[i].key = id
    /\ CallsOf(table_calls, "clear") = {}
    /\ IdsOf(probe.new) # {}

(***************************************************************************)
(* The cycles C17 is about: the diff has changed records only, each has a  *)
(* row and still passes the filter, and the rows stand in the order the    *)
(* new filtered list has.                                                  *)
(***************************************************************************)
OnlyVisibleChanges(j) ==
    LET d == diff_issues(_issues, Fetched(j))
    IN /\ d.added = <<>>
       /\ d.removed_ids = <<>>
       /\ d.changed # <<>>
       /\ IdsOf(d.changed) \subseteq RowKeys(table_rows)
       /\ IdsOf(d.changed) \subseteq IdsOf(Pipeline(Fetched(j)))
       /\ IdSeq(Pipeline(Fetched(j))) = KeySeq(table_rows)

\* the cells of the row of id, before the cycle and for the fetched record
OldCells(id) == table_rows[RowIndex(table_rows, id)].cells
NewCells(j, id) == _get_row_cells(RecordOf(Fetched(j), id))

\* the calls are update_cell calls, no two alike
OnlyUpdateCells(calls) ==
    /\ \A i \in 1..Len(calls) : calls[i].op = "update_cell"
    /\ \A i, k \in 1..Len(calls) : calls[i] = calls[k] => i = k

(***************************************************************************)
(* C17 as stated: in such a cycle the table gets update_cell calls only,   *)
(* one for each cell of a changed record whose value differs, and no other *)
(* call.  The code calls update_cell for every active column of a changed  *)
(* row, also for the cells that keep their value.                          *)
(***************************************************************************)
C17_UpdateChangedCellsOnly ==
    [][\A j \in NaturalFetches(cycles) :
          (RefreshStep(j) /\ OnlyVisibleChanges(j)) =>
              /\ OnlyUpdateCells(table_calls')
              /\ Range(table_calls') =
                     {Call("update_cell", id, c) :
                         <<id, c>> \in
                             {p \in IdsOf(diff_issues(_issues, Fetched(j)).changed)
                                      \X Range(DEFAULT_COLUMNS) :
                                  OldCells(p[1])[p[2]] # NewCells(j, p[1])[p[2]]}}
          ]_vars

(***************************************************************************)
(* C17 amended: in such a cycle the table gets update_cell calls only, one *)
(* for every active column of every changed row, whether or not the cell   *)
(* differs; no row is removed or added and the table is not cleared: the   *)
(* rows keep their keys and their order, the changed rows show the new     *)
(* record, the other rows and the cursor stay.                             *)
(***************************************************************************)
C17_ZeroFlicker ==
    [][\A j \in NaturalFetches(cycles) :
          (RefreshStep(j) /\ OnlyVisibleChanges(j)) =>
              /\ OnlyUpdateCells(table_calls')
              /\ Range(table_calls') =
                     {Call("update_cell", id, c) :
                         <<id, c>> \in
                             IdsOf(diff_issues(_issues, Fetched(j)).changed)
                                 \X Range(DEFAULT_COLUMNS)}
              /\ KeySeq(table_rows') = KeySeq(table_rows)
              /\ \A i \in 1..Len(table_rows) :
                     table_rows'[i].cells =
                         IF table_rows[i].key \in
                                IdsOf(diff_issues(_issues, Fetched(j)).changed)
                         THEN NewCells(j, table_rows[i].key)
                         ELSE table_rows[i].cells
              /\ cursor_row' = cursor_row]_vars

\* the status of one of two shown records has changed under the filter
\* "All": its row, and no other, got the six update_cell calls
C17_Witness ==
    /\ cycles = <<>>
    /\ Len(table_rows) = 2
    /\ Len(table_calls) = Len(DEFAULT_COLUMNS)
    /\ OnlyUpdateCells(table_calls)
    /\ \E r \in Range(probe.new) :
           /\ r.id \in IdsOf(probe.old)
           /\ r.status # RecordOf(probe.old, r.id).status
           /\ table_calls[1].key = r.id

\* the rows _populate_table makes of a filtered list
RowsOf(filtered) ==
    [i \in 1..Len(filtered) |->
        [key |-> filtered[i].id, cells |-> _get_row_cells(filtered[i])]]

\* the rows that stay when the removed ids are gone, top to bottom
StayingKeys(j) ==
    LET InNew(k) == k \in IdsOf(Fetched(j))
    IN SelectSeq(KeySeq(table_rows), InNew)

(***************************************************************************)
(* C18: a cycle without added ids in which a changed record moves the rows *)
(* that are shown (its sort key is another) or changes which records are   *)
(* shown (it passes the filter no longer, or passes it now) rebuilds the   *)
(* table: the table is cleared and then shows exactly the new filtered     *)
(* list, in its order.  The code rebuilds only `if added`.                 *)
(***************************************************************************)
C18_ReorderForcesRebuild ==
    [][\A j \in NaturalFetches(cycles) :
          (/\ RefreshStep(j)
           /\ diff_issues(_issues, Fetched(j)).added = <<>>
           /\ diff_issues(_issues, Fetched(j)).changed # <<>>
           /\ IdSeq(Pipeline(Fetched(j))) # StayingKeys(j))
              => /\ CallsOf(table_calls', "clear") # {}
                 /\ table_rows' = RowsOf(Pipeline(Fetched(j)))]_vars

C20_NeverClears ==
    [][\A j \in NaturalFetches(cycles) :
          RefreshStep(j) => CallsOf(table_calls', "clear") = {}]_vars

(***************************************************************************)
(* The cycles that follow a refresh cycle while the store stays as it is:  *)
(* the timer of ReconcileSpec ticks again, the fetch returns what the      *)
(* store holds, refresh_data diffs and applies it.                         *)
(***************************************************************************)
DriftNext ==
    \/ refresh_data
    \/ _do_refresh_timer
    \/ list_issues_returns

DriftSpec == ReconcileInit /\ [][DriftNext]_vars

\* the table is not what _populate_table makes of the stored snapshot
Drifted == table_rows # RowsOf(Pipeline(_issues))

(***************************************************************************)
(* C21: drift is corrected by the next cycle.  If the table differs from   *)
(* the rows of the filtered and sorted stored snapshot, the next           *)
(* refresh_data that completes leaves the table equal to them, also when   *)
(* it fetched what the store held at the cycle before.  The code returns   *)
(* early on an empty diff and rebuilds only `if added`.                    *)
(***************************************************************************)
C21_DriftSelfCorrects ==
    [][\A j \in NaturalFetches(cycles) :
          (RefreshStep(j) /\ Drifted)
              => table_rows' = RowsOf(Pipeline(_issues'))]_vars

(***************************************************************************)
(* One refresh cycle on a table of up to MaxSnap rows, for the selection:  *)
(* the records shown were loaded at their first write, in any order; the   *)
(* fetched snapshot has them removed, written again (open or closed) or    *)
(* kept, and others added, in any order.                                   *)
(***************************************************************************)
SelectRecords ==
    {Issue(id, rev, st, DEFAULT_PRIORITY, <<"a">>, <<"A">>, <<>>, <<>>) :
        id \in SnapIds, rev \in 1..MaxRev, st \in {"open", "closed"}}

FirstWrites == {r \in SelectRecords : r.updated_at = 1}

SelectInit ==
    \E old \in Snapshots(FirstWrites), new \in Snapshots(SelectRecords),
       statuses \in {Some({"open", "in_progress"}), Nothing} :
        Loaded(old, new, statuses)

SelectSpec == SelectInit /\ [][refresh_data]_vars

\* the id of the row the cursor is on
SelectedId(rows, row) == rows[row + 1].key

(***************************************************************************)
(* C22: the selection follows the id.  If the table has rows and the id    *)
(* under the cursor is in the new filtered list, then after the cycle the  *)
(* cursor is on the row of that id, whatever was removed, added or moved   *)
(* above it.  remove_row leaves the cursor at its index: when a row above  *)
(* the selected one goes, the cursor is on the row that followed it.       *)
(***************************************************************************)
C22_SelectionFollowsId ==
    [][\A j \in NaturalFetches(cycles) :
          (/\ RefreshStep(j)
           /\ table_rows # <<>>
           /\ SelectedId(table_rows, cursor_row)
                  \in IdsOf(Pipeline(Fetched(j))))
              => /\ cursor_row' + 1 \in 1..Len(table_rows')
                 /\ SelectedId(table_rows', cursor_row')
                        = SelectedId(table_rows, cursor_row)]_vars

(***************************************************************************)
(* C23: a selection whose id is gone falls to the same index.  If the id   *)
(* under the cursor is not in the new filtered list (removed from the      *)
(* store, or filtered out), then after the cycle the cursor is at the      *)
(* index it had, clamped to the new list, and the row there is the record  *)
(* the new list has at that index.                                         *)
(***************************************************************************)
C23_VanishedSelectionClamps ==
    [][\A j \in NaturalFetches(cycles) :
          (/\ RefreshStep(j)
           /\ table_rows # <<>>
           /\ SelectedId(table_rows, cursor_row)
                  \notin IdsOf(Pipeline(Fetched(j))))
              => /\ cursor_row' =
                        Max(0, Min(cursor_row, Len(Pipeline(Fetched(j))) - 1))
                 /\ Pipeline(Fetched(j)) # <<>> =>
                        /\ cursor_row' + 1 \in 1..Len(table_rows')
                        /\ SelectedId(table_rows', cursor_row')
                               = Pipeline(Fetched(j))[cursor_row' + 1].id]_vars

(***************************************************************************)
(* The view settings.  FilterBar posts FiltersChanged when the search text *)
(* (after its 0.3 s timer) or a status, priority or type selection         *)
(* changes; the DataTable posts HeaderSelected; the sort picker hands its  *)
(* choice to the callback of action_sort_picker.  An exception that leaves *)
(* a handler or a callback reaches the message pump, which closes the      *)
(* application: it stands in cycles with pc "raised".                      *)
(***************************************************************************)
Escaped(origin, timer) == [NewCycle(origin, timer) EXCEPT !.pc = "raised"]

Raised(cs) == {j \in 1..Len(cs) : cs[j].pc = "raised"}

\* FilterBar.FiltersChanged(search, statuses, priorities, types)
FiltersChanged(search, statuses, priorities, types) ==
    [search |-> search, statuses |-> statuses, priorities |-> priorities,
     types |-> types]

\* what _post_filters_changed sends: get_filters gives None for a group
\* with every option selected
FilterEvents ==
    {FiltersChanged(search, statuses, priorities, types) :
        search \in {<<>>, <<"a">>},
        statuses \in {Nothing, Some({"open", "in_progress"}), Some({"closed"})},
        priorities \in {Nothing, Some({1})},
        types \in {Nothing}}

\* _rebuild_columns: table.clear(columns=True), then a column per active one
_rebuild_columns(tbl) ==
    <<<<>>, 0,
      tbl[3] \o <<Call("clear", None, "columns")>>
             \o [i \in 1..Len(DEFAULT_COLUMNS) |->
                    Call("add_column", None, DEFAULT_COLUMNS[i])]>>

\* _apply_filters_and_sort() and _populate_table() once the settings are set
Reapply(tbl) ==
    /\ _filtered_issues' =
           _apply_filters_and_sort(_issues, _current_filters', _sort_column',
                                   _sort_reverse')
    /\ table_rows'  = _populate_table(tbl, _filtered_issues')[1]
    /\ cursor_row'  = _populate_table(tbl, _filtered_issues')[2]
    /\ table_calls' = _populate_table(tbl, _filtered_issues')[3]
    /\ UNCHANGED <<envVars, mixinVars, _issues, appVars, obsVars, probe>>

\* BeadsTuiApp._on_filters_changed: the dict is built from event.search,
\* event.statuses, event.priority and event.type_ before it is assigned
_on_filters_changed ==
    /\ mounted
    /\ Raised(cycles) = {}
    /\ \E event \in FilterEvents :
          IF {"search", "statuses", "priority", "type_"} \subseteq DOMAIN event
          THEN /\ _current_filters' =
                      [search |-> event.search, statuses |-> event.statuses,
                       priority |-> event.priority, type |-> event.type_]
               /\ UNCHANGED <<_sort_column, _sort_reverse>>
               /\ Reapply(<<table_rows, cursor_row, <<>>>>)
          ELSE \* AttributeError
               /\ cycles' = Append(cycles, Escaped("_on_filters_changed", None))
               /\ table_calls' = <<>>
               /\ UNCHANGED <<store, timers, watcher_tasks, call_later,
                              mixinVars, dataVars, viewCfgVars, tableVars,
                              appVars, obsVars, probe>>

\* a SortPicker screen on top of the list view: the column and direction it
\* was opened with, the ones it holds now, and the options selected so far
SortPicker(current_col, current_reverse) ==
    [origin |-> "action_sort_picker", timer |-> None, pc |-> "screen",
     result |-> Pending, overtaken |-> FALSE, stopped |-> FALSE,
     _selected_col |-> current_col, _selected_reverse |-> current_reverse,
     opened_col |-> current_col, opened_reverse |-> current_reverse,
     picks |-> <<>>]

Pickers(cs) == {j \in 1..Len(cs) : cs[j].origin = "action_sort_picker"}

\* a header click that sorts ascending whichever column was current
HeaderSelectedAscending ==
    /\ mounted
    /\ Raised(cycles) = {}
    /\ Pickers(cycles) = {}
    /\ \E col_key \in Range(DEFAULT_COLUMNS) :
          /\ _sort_column' = col_key
          /\ _sort_reverse' = FALSE
          /\ UNCHANGED _current_filters
          /\ Reapply(_rebuild_columns(<<table_rows, cursor_row, <<>>>>))

\* BeadsTuiApp._on_header_selected: a click on the header of a column shown;
\* a modal screen on top takes the clicks
_on_header_selected ==
    /\ mounted
    /\ Raised(cycles) = {}
    /\ Pickers(cycles) = {}
    /\ \E col_key \in Range(DEFAULT_COLUMNS) :
          /\ _sort_column' = col_key
          /\ _sort_reverse' =
                 IF _sort_column = col_key THEN ~_sort_reverse ELSE FALSE
          /\ UNCHANGED _current_filters
          /\ Reapply(_rebuild_columns(<<table_rows, cursor_row, <<>>>>))

\* the columns the sort picker lists for the fields the records here differ in
PickerColumns == {"id", "priority", "status", "updated"}

\* action_sort_picker, _on_dismiss(result) with a result that is not None
sort_picker_dismissed ==
    /\ mounted
    /\ Raised(cycles) = {}
    /\ \E col_key \in PickerColumns, reverse \in BOOLEAN :
          /\ _sort_column' = col_key
          /\ _sort_reverse' = reverse
          /\ UNCHANGED _current_filters
          /\ Reapply(_rebuild_columns(<<table_rows, cursor_row, <<>>>>))

\* the application shows a snapshot and nothing of the store has changed
ViewInit ==
    \E old \in Snapshots(ViewRecords),
       statuses \in {Some({"open", "in_progress"}), Nothing} :
        Loaded(old, old, statuses)

ViewNext ==
    \/ _on_filters_changed
    \/ _on_header_selected
    \/ sort_picker_dismissed

ViewSpec == ViewInit /\ [][ViewNext]_vars

\* a setter of the filter or of the sort ran in this step
SetterRan ==
    \/ viewCfgVars' # viewCfgVars
    \/ \E j \in Raised(cycles') : cycles'[j].origin = "_on_filters_changed"

(***************************************************************************)
(* C24: setting the filter (FiltersChanged, for the search text and the    *)
(* status, priority and type selections) or the sort (header click, sort   *)
(* picker) applies the pipeline to the snapshot held and rebuilds the      *)
(* table, and fetches nothing: _issues and the coroutines in flight are    *)
(* as they were, no exception leaves the handler, _filtered_issues is the  *)
(* pipeline's output under the new settings and the table shows it.        *)
(* _on_filters_changed reads event.priority and event.type_, which         *)
(* FiltersChanged does not have.                                           *)
(***************************************************************************)
C24_SettersReapplyWithoutFetch ==
    [][SetterRan =>
          /\ cycles' = cycles
          /\ _issues' = _issues
          /\ _filtered_issues' =
                 _apply_filters_and_sort(_issues, _current_filters',
                                         _sort_column', _sort_reverse')
          /\ table_rows' = RowsOf(_filtered_issues')
          /\ CallsOf(table_calls', "clear") # {}]_vars

(***************************************************************************)
(* C25: with nothing to watch, detection is always-refetch.  As stated:    *)
(* on_mount leaves a polling timer (at REFRESH_INTERVAL when no watcher    *)
(* task was started), and a tick of a timer while not paused begins a      *)
(* fetch.  refresh_data returns before the fetch when self.client is None  *)
(* (bd was not found at on_mount): live reload is started and no tick      *)
(* fetches.                                                                *)
(***************************************************************************)
PollingStarted ==
    [][(~mounted /\ mounted') =>
          \E t \in timers' :
              /\ t.id = _refresh_timer'
              /\ _watcher_task' = None => t.interval = REFRESH_INTERVAL]_vars

\* the callback of t, run now, awaits a fetch
TickFetches(t) ==
    \E j \in Fetching(TimerCallback(t)) :
        /\ TimerCallback(t)[j].origin = "timer"
        /\ TimerCallback(t)[j].timer = t.id

list_issues_touches_root ==
    /\ \E j \in Fetching(cycles) : cycles[j].result = Pending
    /\ _run_file_watcher

WatchNext ==
    \/ on_mount
    \/ list_issues_touches_root
    \/ Tick
    \/ _fire_refresh_from_watcher
    \/ _do_refresh_task
    \/ _do_refresh_timer
    \/ _load_issues_starts
    \/ list_issues_returns
    \/ refresh_data
    \/ _load_issues

WatchSpec == Init /\ [][WatchNext]_vars

(***************************************************************************)
(* C26: reads do not fool the change detector.  With the store only read   *)
(* (by the viewer's own fetches), no change signal is raised: no debounced *)
(* refresh is scheduled and no refresh task comes from the watcher.        *)
(* _run_file_watcher schedules a refresh for whatever awatch yields.       *)
(***************************************************************************)
C26_ReadsRaiseNoSignal ==
    /\ call_later = {}
    /\ \A c \in Range(cycles) : c.origin # "watcher"

(***************************************************************************)
(* The application left running on a store that is not written any more:   *)
(* the store holds any number of records up to one more than `bd list`     *)
(* prints, live reload polls, refresh is not paused and every fetch        *)
(* succeeds.                                                               *)
(***************************************************************************)
MaxStore == LIST_LIMIT + 1

LimitInit ==
    \E n \in 0..MaxStore :
        /\ store = [i \in 1..MaxStore |->
                       IF i <= n
                       THEN [life |-> "live", issue |-> NewIssue(i, "open")]
                       ELSE Slot("none", i)]
        /\ timers = {[id |-> 1, interval |-> REFRESH_INTERVAL]}
        /\ watcher_tasks = {}
        /\ call_later = {}
        /\ cycles = <<>>
        /\ _refresh_paused = FALSE
        /\ _refresh_timer = 1
        /\ _watcher_task = None
        /\ _debounce_handle = None
        /\ mounted = TRUE
        /\ client = "BdClient"
        /\ _issues = <<>>
        /\ _filtered_issues = <<>>
        /\ _current_filters = [search |-> <<>>,
                               statuses |-> Some({"open", "in_progress"}),
                               priority |-> Nothing, type |-> <<>>]
        /\ _sort_column = "priority"
        /\ _sort_reverse = FALSE
        /\ table_rows = <<>>
        /\ cursor_row = 0
        /\ table_calls = <<>>
        /\ sinceSignal = DEBOUNCE_DELAY + 1
        /\ burstLen = 0
        /\ missed = FALSE
        /\ probe = NoProbe

LimitNext ==
    \/ _do_refresh_timer
    \/ list_issues_returns
    \/ refresh_data

LimitSpec == LimitInit /\ [][LimitNext]_vars

\* the records the store holds
StoreRecords == {store[i].issue : i \in {k \in DOMAIN store : store[k].life = "live"}}

(***************************************************************************)
(* C27: eventual convergence.  With the store not written any more, live   *)
(* reload running, refresh not paused and every fetch succeeding, a cycle  *)
(* that runs to its end leaves in _issues exactly the records of the       *)
(* store: the first one to end converges and the later ones keep it so.    *)
(* list_issues asks bd for 50 records at most: a store with more is never  *)
(* held whole, however many cycles run.                                    *)
(***************************************************************************)
C27_CycleConverges ==
    [][\A j \in NaturalFetches(cycles) :
          RefreshStep(j) => Range(_issues') = StoreRecords]_vars

(***************************************************************************)
(* The commands of the viewer that write to the store.  A command stands   *)
(* in cycles from the key press to the end of its bd subprocess: pc is     *)
(* "dialog" while the create screen is open, "created" for the worker      *)
(* _do_create_issue not yet run, "mutating" while `bd create` or           *)
(* `bd close` runs.  One command at a time is followed.                    *)
(***************************************************************************)
Command(op, id, pc) ==
    [origin |-> op, timer |-> 0, pc |-> pc, result |-> Pending,
     overtaken |-> FALSE, stopped |-> FALSE, issue_id |-> id]

Mutating(cs) == {j \in 1..Len(cs) : cs[j].pc = "mutating"}

NoCommand == \A c \in Range(cycles) : c.origin \notin {"create", "close"}

\* _get_selected_issue: the id of the record of the row under the cursor
_get_selected_issue ==
    IF table_rows = <<>> \/ cursor_row + 1 \notin 1..Len(table_rows)
    THEN None
    ELSE IF table_rows[cursor_row + 1].key \in IdsOf(_filtered_issues)
         THEN table_rows[cursor_row + 1].key
         ELSE None

\* action_quick_close up to `await self.client.close_issue(issue.id)`
action_quick_close ==
    /\ mounted
    /\ NoCommand
    /\ _get_selected_issue # None
    /\ client # NoneStr
    /\ cycles' = Append(cycles, Command("close", _get_selected_issue, "mutating"))
    /\ table_calls' = <<>>
    /\ UNCHANGED <<store, timers, watcher_tasks, call_later, mixinVars,
                   dataVars, viewCfgVars, tableVars, appVars, probe, obsVars>>

\* `bd close` ends: the record is written and _load_issues() called, or
\* BdError is notified
close_issue_returns ==
    \E j \in Mutating(cycles) :
        /\ cycles[j].origin = "close"
        /\ \/ /\ store[cycles[j].issue_id].life = "live"
              /\ store[cycles[j].issue_id].issue.updated_at < MaxRev
              /\ store' = [store EXCEPT ![cycles[j].issue_id].issue =
                              [@ EXCEPT !.status = "closed",
                                        !.updated_at = @ + 1]]
              /\ StoreWritten
              /\ cycles' = Append(SelectSeq(RemoveAt(cycles, j), NotForced),
                                  NewCycle("forced", 0))
           \/ /\ cycles' = RemoveAt(cycles, j)
              /\ UNCHANGED <<store, missed>>
        /\ table_calls' = <<>>
        /\ UNCHANGED <<timers, watcher_tasks, call_later, mixinVars, dataVars,
                       viewCfgVars, tableVars, appVars, probe, sinceSignal,
                       burstLen>>

\* action_create: pause_refresh() and the create screen pushed
action_create ==
    /\ mounted
    /\ NoCommand
    /\ _refresh_paused' = TRUE
    /\ call_later' = {[h EXCEPT !.over_pause = TRUE] : h \in call_later}
    /\ cycles' = Append(cycles, Command("create", None, "dialog"))
    /\ table_calls' = <<>>
    /\ UNCHANGED <<store, timers, watcher_tasks, _refresh_timer,
                   _watcher_task, _debounce_handle, dataVars, viewCfgVars,
                   tableVars, appVars, probe, obsVars>>

\* _on_dismiss(result): resume_refresh(), then the exclusive worker
\* _do_create_issue for a result that is not None
create_dismissed ==
    \E j \in 1..Len(cycles), submitted \in BOOLEAN :
        /\ cycles[j].pc = "dialog"
        /\ _refresh_paused' = FALSE
        /\ cycles' = IF submitted
                     THEN Append(SelectSeq(RemoveAt(cycles, j), NotForced),
                                 Command("create", None, "created"))
                     ELSE RemoveAt(cycles, j)
        /\ table_calls' = <<>>
        /\ UNCHANGED <<store, timers, watcher_tasks, call_later,
                       _refresh_timer, _watcher_task, _debounce_handle,
                       dataVars, viewCfgVars, tableVars, appVars, probe,
                       obsVars>>

\* the worker first runs: _do_create_issue up to its await
_do_create_issue_starts ==
    \E j \in 1..Len(cycles) :
        /\ cycles[j].origin = "create"
        /\ cycles[j].pc = "created"
        /\ cycles' = IF NoClient THEN RemoveAt(cycles, j)
                     ELSE [cycles EXCEPT ![j].pc = "mutating"]
        /\ table_calls' = <<>>
        /\ UNCHANGED <<store, timers, watcher_tasks, call_later, mixinVars,
                       dataVars, viewCfgVars, tableVars, appVars, probe,
                       obsVars>>

\* `bd create` ends: the record is written under an id not used yet and
\* _load_issues() called, or BdError is notified
create_issue_returns ==
    \E j \in Mutating(cycles) :
        /\ cycles[j].origin = "create"
        /\ \/ \E id \in DOMAIN store :
                 /\ store[id].life = "none"
                 /\ \A k \in DOMAIN store : store[k].life = "none" => id <= k
                 /\ store' = [store EXCEPT ![id] =
                                 [life |-> "live", issue |-> NewIssue(id, "open")]]
                 /\ StoreWritten
                 /\ cycles' = Append(SelectSeq(RemoveAt(cycles, j), NotForced),
                                     NewCycle("forced", 0))
           \/ /\ cycles' = RemoveAt(cycles, j)
              /\ UNCHANGED <<store, missed>>
        /\ table_calls' = <<>>
        /\ UNCHANGED <<timers, watcher_tasks, call_later, mixinVars, dataVars,
                       viewCfgVars, tableVars, appVars, probe, sinceSignal,
                       burstLen>>

\* the application shows a snapshot of records written once, filter All
MutateInit ==
    \E old \in Snapshots({NewIssue(id, "open") : id \in ViewIds}) :
        Loaded(old, old, Nothing)

MutateNext ==
    \/ action_quick_close
    \/ close_issue_returns
    \/ action_create
    \/ create_dismissed
    \/ _do_create_issue_starts
    \/ create_issue_returns
    \/ _do_refresh_timer
    \/ list_issues_returns
    \/ refresh_data
    \/ _load_issues_starts
    \/ _load_issues

MutateSpec == MutateInit /\ [][MutateNext]_vars

(***************************************************************************)
(* C28: the viewer does not race its own commands.  While the subprocess   *)
(* of a create or close command runs, no `bd list` of a fetch runs.        *)
(* action_quick_close does not pause refresh, and action_create resumes it *)
(* before its worker runs `bd create`: a timer tick fetches meanwhile.     *)
(***************************************************************************)
C28_NoFetchDuringMutation ==
    \A i \in Mutating(cycles), j \in Fetching(cycles) :
        cycles[j].result # Pending

(***************************************************************************)
(* The outcomes of a fetch that _run_bd and list_issues do not turn into   *)
(* BdError: create_subprocess_exec raises OSError when bd cannot be        *)
(* spawned (binary removed or not executable since the client was built),  *)
(* and Issue.from_dict raises AttributeError or TypeError on JSON that is  *)
(* not a list of objects.  `except BdError` does not catch them: the       *)
(* exception leaves refresh_data and _do_refresh (or the worker            *)
(* _load_issues).  Out of a timer callback or a worker it reaches          *)
(* App._handle_exception and the application closes; out of the task of    *)
(* _fire_refresh_from_watcher it stays in the task.                        *)
(***************************************************************************)
Untyped == {"OSError", "AttributeError"}

list_issues_raises_untyped ==
    \E j \in Fetching(cycles), error \in Untyped :
        /\ cycles[j].result = Pending
        /\ cycles' = [cycles EXCEPT ![j] =
                         [Escaped(cycles[j].origin, cycles[j].timer)
                              EXCEPT !.result = [kind |-> error, issues |-> <<>>]]]
        /\ table_calls' = <<>>
        /\ UNCHANGED <<store, timers, watcher_tasks, call_later, mixinVars,
                       dataVars, viewCfgVars, tableVars, appVars, probe,
                       obsVars>>

FaultNext ==
    \/ on_mount
    \/ _run_file_watcher
    \/ Tick
    \/ _fire_refresh_from_watcher
    \/ _do_refresh_task
    \/ _do_refresh_timer
    \/ _load_issues_starts
    \/ list_issues_returns
    \/ list_issues_raises
    \/ list_issues_raises_untyped
    \/ refresh_data
    \/ _load_issues

FaultSpec == Init /\ [][FaultNext]_vars

(***************************************************************************)
(* C29: nothing in a refresh cycle is fatal.  Whatever the outcome of the  *)
(* bd subprocess (not spawned, non-zero exit, output that does not parse,  *)
(* output of another shape), no exception leaves refresh_data and          *)
(* _do_refresh: no refresh cycle ends raised.  Only non-zero exit and      *)
(* JSONDecodeError are raised as BdError.                                  *)
(***************************************************************************)
C29_NoExceptionLeavesTheCycle ==
    \A j \in Raised(cycles) : cycles[j].origin \notin {"timer", "watcher"}

\* this step is the end of the fetch of cycle j in a failure
FetchFails(j) ==
    /\ cycles[j].origin \in {"timer", "watcher"}
    /\ \/ cycles[j].result = BdError /\ cycles' = Drop(cycles, j)
       \/ /\ cycles[j].result = Pending
          /\ Len(cycles') = Len(cycles)
          /\ cycles'[j].pc = "raised"

(***************************************************************************)
(* C30: a failed fetch aborts the cycle and the next tick tries again.     *)
(* The step in which a fetch fails leaves every timer and watcher task     *)
(* running and the handles of the mixin as they were, and the callback of  *)
(* the timer has returned, so that its next tick calls _do_refresh anew.   *)
(* An exception that is not a BdError (C29) leaves the timer callback and  *)
(* closes the application: that timer does not tick again.                 *)
(***************************************************************************)
C30_FailedFetchIsRetried ==
    [][\A j \in Fetching(cycles) :
          FetchFails(j) =>
              /\ UNCHANGED <<timers, watcher_tasks, _refresh_timer,
                             _watcher_task, _refresh_paused>>
              /\ \A c \in Range(cycles') :
                     ~(c.origin = "timer" /\ c.timer = cycles[j].timer
                       /\ cycles[j].origin = "timer")]_vars

(***************************************************************************)
(* C31: a snapshot is a complete copy of the store.  When the bd           *)
(* subprocess of a fetch ends well, the list handed back holds every       *)
(* record of the store as it is then, whatever their number.               *)
(* list_issues(all_=True) keeps its default limit: `--limit 50`.           *)
(***************************************************************************)
C31_FetchIsComplete ==
    [][\A j \in Fetching(cycles) :
          (/\ cycles[j].result = Pending
           /\ Len(cycles') = Len(cycles)
           /\ cycles'[j].result.kind = "ok")
              => Range(cycles'[j].result.issues) = StoreRecords]_vars

(***************************************************************************)
(* _apply_filters_and_sort taken alone: it is called on a snapshot of up   *)
(* to MaxSnap records with unique ids, in any order, under any filter and  *)
(* sort setting.  The records differ in every field the filters and the    *)
(* sort keys read.                                                         *)
(***************************************************************************)
PipeRecords ==
    {Issue(id, 1, "open", 1, <<"a">>, <<"A">>, <<>>, <<>>) : id \in ViewIds}
    \cup {Issue(id, 1, "closed", 2, <<"b">>, <<"b">>, <<"a">>, <<>>) : id \in ViewIds}
    \cup {Issue(id, 1, "in_progress", 1, <<"a">>, <<"b">>, <<>>, <<"A">>) : id \in ViewIds}
    \cup {Issue(id, 1, "open", 1, <<>>, <<"b", "a">>, <<"b">>, <<"a">>) : id \in ViewIds}

PipeFilters ==
    {[search |-> search, statuses |-> statuses, priority |-> priority,
      type |-> type] :
        search \in {<<>>, <<"a">>, <<"B">>, <<"1">>},
        statuses \in {Nothing, Some({"open", "in_progress"}), Some({"closed"})},
        priority \in {Nothing, Some(1)},
        type \in {<<>>, <<"a">>}}

PipeColumns == {"priority", "title"}

PipeInit ==
    /\ store = [i \in Ids |-> Slot("none", i)]
    /\ timers = {}
    /\ watcher_tasks = {}
    /\ call_later = {}
    /\ cycles = <<>>
    /\ _refresh_paused = FALSE
    /\ _refresh_timer = None
    /\ _watcher_task = None
    /\ _debounce_handle = None
    /\ mounted = TRUE
    /\ client = "BdClient"
    /\ _issues \in Snapshots(PipeRecords)
    /\ _filtered_issues = <<>>
    /\ _current_filters \in PipeFilters
    /\ _sort_column \in PipeColumns
    /\ _sort_reverse \in BOOLEAN
    /\ table_rows = <<>>
    /\ cursor_row = 0
    /\ table_calls = <<>>
    /\ sinceSignal = DEBOUNCE_DELAY + 1
    /\ burstLen = 0
    /\ missed = FALSE
    /\ probe = NoProbe

_apply_filters_and_sort_called ==
    /\ ~probe.called
    /\ _filtered_issues' = Pipeline(_issues)
    /\ probe' = [probe EXCEPT !.called = TRUE]
    /\ UNCHANGED <<envVars, mixinVars, _issues, viewCfgVars, tableVars,
                   table_calls, appVars, obsVars>>

PipeSpec == PipeInit /\ [][_apply_filters_and_sort_called]_vars

\* the predicates of the filter, each alone; one that is not set holds
InStatuses(i) ==
    _current_filters.statuses # Nothing =>
        i.status \in _current_filters.statuses[1]

\* the search text, whatever its case, is part of one of the five fields
Searched(i) ==
    _current_filters.search # <<>> =>
        \E field \in {i.title, IdText(i.id), i.owner, i.assignee, i.issue_type} :
            Contains(Lower(field), Lower(_current_filters.search))

HasPriority(i) ==
    _current_filters.priority # Nothing =>
        i.priority = _current_filters.priority[1]

HasType(i) ==
    _current_filters.type # <<>> => i.issue_type = _current_filters.type

EmptyFilter ==
    [search |-> <<>>, statuses |-> Nothing, priority |-> Nothing, type |-> <<>>]

PlaceOf(issues, id) == CHOOSE k \in 1..Len(issues) : issues[k].id = id

\* two records whose sort keys under the current column are equal
SameKey(a, b) ==
    /\ ~KeyLess(_sort_column, a, b)
    /\ ~KeyLess(_sort_column, b, a)

(***************************************************************************)
(* C33: sort stability.  After the pipeline has run, running it again on   *)
(* the unchanged snapshot with the unchanged filter and sort setting gives *)
(* the same ids in the same order, and two records of the result whose     *)
(* sort keys are equal stand in the order they have in the snapshot,       *)
(* whether the direction is ascending or descending.                       *)
(***************************************************************************)
C33_SortIsStable ==
    probe.called =>
        /\ IdSeq(Pipeline(_issues)) = IdSeq(_filtered_issues)
        /\ \A a, b \in 1..Len(_filtered_issues) :
               (a < b /\ SameKey(_filtered_issues[a], _filtered_issues[b]))
                   => PlaceOf(_issues, _filtered_issues[a].id)
                          < PlaceOf(_issues, _filtered_issues[b].id)

\* descending direction, two records kept whose keys are equal, the one
\* with the larger id first in the snapshot and first in the result
C33_Witness ==
    /\ probe.called
    /\ _sort_reverse
    /\ Len(_filtered_issues) = 2
    /\ SameKey(_filtered_issues[1], _filtered_issues[2])
    /\ _filtered_issues[1].id > _filtered_issues[2].id
    /\ _issues[1].id > _issues[2].id

(***************************************************************************)
(* The sort setting: header clicks and the SortPicker screen, option by    *)
(* option, over a snapshot that is shown.                                  *)
(***************************************************************************)
MaxPicks == 2

PickRecords ==
    {Issue(id, 1, "open", pr, <<"a">>, <<"A">>, <<>>, <<>>) :
        id \in ViewIds, pr \in {1, 2}}

\* action_sort_picker: the screen is pushed with the current setting
action_sort_picker ==
    /\ mounted
    /\ Raised(cycles) = {}
    /\ Pickers(cycles) = {}
    /\ cycles' = Append(cycles, SortPicker(_sort_column, _sort_reverse))
    /\ table_calls' = <<>>
    /\ UNCHANGED <<store, timers, watcher_tasks, call_later, mixinVars,
                   dataVars, viewCfgVars, tableVars, appVars, obsVars, probe>>

\* SortPicker._on_option_selected
_on_option_selected ==
    \E j \in Pickers(cycles), col_key \in PickerColumns :
        /\ Len(cycles[j].picks) < MaxPicks
        /\ cycles' = [cycles EXCEPT ![j] =
               [@ EXCEPT !._selected_col = col_key,
                         !._selected_reverse =
                             IF cycles[j]._selected_col = col_key
                             THEN ~cycles[j]._selected_reverse ELSE FALSE,
                         !.picks = Append(@, col_key)]]
        /\ table_calls' = <<>>
        /\ UNCHANGED <<store, timers, watcher_tasks, call_later, mixinVars,
                       dataVars, viewCfgVars, tableVars, appVars, obsVars,
                       probe>>

\* SortPicker.on_button_pressed with sort-apply-btn, then _on_dismiss(result)
\* of action_sort_picker
sort_apply_pressed ==
    \E j \in Pickers(cycles) :
        LET tbl == _rebuild_columns(<<table_rows, cursor_row, <<>>>>)
            filtered == _apply_filters_and_sort(_issues, _current_filters,
                            cycles[j]._selected_col,
                            cycles[j]._selected_reverse)
        IN /\ cycles' = RemoveAt(cycles, j)
           /\ _sort_column' = cycles[j]._selected_col
           /\ _sort_reverse' = cycles[j]._selected_reverse
           /\ _filtered_issues' = filtered
           /\ table_rows'  = _populate_table(tbl, filtered)[1]
           /\ cursor_row'  = _populate_table(tbl, filtered)[2]
           /\ table_calls' = _populate_table(tbl, filtered)[3]
           /\ UNCHANGED <<store, timers, watcher_tasks, call_later, mixinVars,
                          _issues, _current_filters, appVars, obsVars, probe>>

\* sort-cancel-btn, escape or a click outside: dismiss(None)
sort_cancelled ==
    \E j \in Pickers(cycles) :
        /\ cycles' = RemoveAt(cycles, j)
        /\ table_calls' = <<>>
        /\ UNCHANGED <<store, timers, watcher_tasks, call_later, mixinVars,
                       dataVars, viewCfgVars, tableVars, appVars, obsVars,
                       probe>>

PickInit ==
    \E old \in Snapshots(PickRecords) :
        Loaded(old, old, Some({"open", "in_progress"}))

PickNext ==
    \/ _on_header_selected
    \/ action_sort_picker
    \/ _on_option_selected
    \/ sort_apply_pressed
    \/ sort_cancelled

PickSpec == PickInit /\ [][PickNext]_vars

\* what selecting key does to a setting <<key, reverse>>, as the claim has it
Select(sort, key) ==
    IF sort[1] = key THEN <<key, ~sort[2]>> ELSE <<key, FALSE>>

RECURSIVE SelectAll(_, _)
SelectAll(sort, keys) ==
    IF keys = <<>> THEN sort
    ELSE SelectAll(Select(sort, Head(keys)), Tail(keys))

\* the step is a header click / the step applies the picker's choice
HeaderStep == Pickers(cycles) = {} /\ table_calls' # <<>>
ApplyStep  == Pickers(cycles) # {} /\ Pickers(cycles') = {} /\ table_calls' # <<>>

(***************************************************************************)
(* C34: selecting the sort key that is current reverses the direction and  *)
(* keeps the key, selecting another key sets that key ascending, so the    *)
(* current key selected twice in a row gives back the direction there     *)
(* was.  A header click is one selection on the setting of the             *)
(* application; the sort picker, when applied, leaves the setting it was   *)
(* opened with after the selections made in it, one after the other.       *)
(***************************************************************************)
C34_SameKeyReverses ==
    [][/\ HeaderStep =>
              <<_sort_column', _sort_reverse'>> =
                  Select(<<_sort_column, _sort_reverse>>, _sort_column')
       /\ ApplyStep =>
              \A j \in Pickers(cycles) :
                  /\ cycles[j].opened_col = _sort_column
                  /\ cycles[j].opened_reverse = _sort_reverse
                  /\ <<_sort_column', _sort_reverse'>> =
                         SelectAll(<<_sort_column, _sort_reverse>>,
                                   cycles[j].picks)
                  /\ cycles[j].picks = <<_sort_column, _sort_column>>
                         => /\ _sort_column' = _sort_column
                            /\ _sort_reverse' = _sort_reverse]_vars

\* the list is sorted descending after a header click on the current
\* column, and the picker, opened on it, has had that column selected twice
C34_Witness ==
    /\ _sort_reverse
    /\ \E j \in Pickers(cycles) :
          /\ cycles[j].picks = <<_sort_column, _sort_column>>
          /\ cycles[j]._selected_col = _sort_column
          /\ cycles[j]._selected_reverse

\* a change signal reaches the debouncer while the timer armed by an earlier
\* signal of the burst has run for some time already
LaterSignal ==
    /\ call_later # {}
    /\ sinceSignal > 0
    /\ sinceSignal' = 0

HoldRecords ==
    {Issue(1, 1, "open", 1, <<"a">>, <<"A">>, <<>>, <<>>),
     Issue(2, 1, "closed", 1, <<"a">>, <<"A">>, <<>>, <<>>),
     Issue(2, 2, "open", 1, <<"a">>, <<"A">>, <<>>, <<>>)}

HoldInit ==
    \E old \in Snapshots(HoldRecords), new \in Snapshots(HoldRecords) :
        Loaded(old, new, Some({"open", "in_progress"}))

HoldNext ==
    \/ refresh_data
    \/ action_refresh
    \/ _load_issues_starts
    \/ list_issues_returns
    \/ list_issues_raises
    \/ _load_issues
    \/ _on_filters_changed
    \/ _on_header_selected
    \/ sort_picker_dismissed

HoldSpec == HoldInit /\ [][HoldNext]_vars

(***************************************************************************)
(* C36: whenever no handler is running, _filtered_issues is what the       *)
(* pipeline gives for _issues under the current filter, sort column and    *)
(* direction: whatever writes one of these has recomputed _filtered_issues *)
(* by the time it yields.                                                  *)
(***************************************************************************)
C36_FilteredIsPipeline ==
    _filtered_issues = Pipeline(_issues)

\* a refresh cycle has installed another snapshot while the list is sorted
\* descending, and the filter hides one of its records
C36_Witness ==
    /\ _issues = probe.new
    /\ probe.old # probe.new
    /\ _sort_reverse
    /\ _filtered_issues # <<>>
    /\ Len(_filtered_issues) < Len(_issues)
    /\ cycles = <<>>

\* coroutine j, which has its fetch result, runs to its end in this step
\* (its timer is not stopped under it)
Resumes(j) == Completes(j) /\ timers' = timers

(***************************************************************************)
(* C37: the diff and its application are one step.  Whatever changes the   *)
(* snapshot, the filtered list or the table is the end of one coroutine    *)
(* that had its fetch result, and what a refresh cycle leaves is the       *)
(* ChangeSet of its result against the snapshot held when it resumes,      *)
(* applied in full: nothing if that ChangeSet is empty; otherwise the      *)
(* result is the snapshot, the filtered list is the pipeline's output for  *)
(* it, no removed id has a row and, if a record was added, the rows are    *)
(* the filtered list.  No state lies between the diff and the last table   *)
(* call in which another cycle or handler could run.                       *)
(***************************************************************************)
C37_DiffAndApplyIsOneStep ==
    [][/\ (dataVars' # dataVars \/ tableVars' # tableVars) =>
              \E j \in Fetching(cycles) :
                  cycles[j].result # Pending /\ Resumes(j)
       /\ \A j \in Fetching(cycles) :
              (/\ cycles[j].origin \in {"timer", "watcher"}
               /\ cycles[j].result.kind = "ok"
               /\ Resumes(j)) =>
                  LET fetched == cycles[j].result.issues
                      d == diff_issues(_issues, fetched)
                  IN IF d.added = <<>> /\ d.changed = <<>> /\ d.removed_ids = <<>>
                     THEN /\ UNCHANGED <<dataVars, tableVars>>
                          /\ table_calls' = <<>>
                     ELSE /\ _issues' = fetched
                          /\ _filtered_issues' = Pipeline(fetched)
                          /\ \A rid \in Range(d.removed_ids) :
                                 rid \notin Range(KeySeq(table_rows'))
                          /\ d.added # <<>> =>
                                 KeySeq(table_rows') = IdSeq(_filtered_issues')]_vars

\* two cycles were fetching; the later one has reconciled, and the earlier
\* one now resumes with a result that differs from the snapshot it finds
C37_Witness ==
    \E j \in Fetching(cycles) :
        /\ cycles[j].overtaken
        /\ cycles[j].origin \in {"timer", "watcher"}
        /\ cycles[j].result.kind = "ok"
        /\ _issues # <<>>
        /\ diff_issues(_issues, cycles[j].result.issues).changed # <<>>

(***************************************************************************)
(* C38: a refresh cycle that was fetching when pause_refresh() was called  *)
(* installs no snapshot and changes no row while _refresh_paused is set:   *)
(* a cycle started by a timer tick or a debounce fire that resumes from    *)
(* its fetch under the pause leaves the snapshot, the filtered list and    *)
(* the table as they are.  refresh_data reads the flag before the fetch    *)
(* only (in _do_refresh), not after it.                                    *)
(***************************************************************************)
C38_NoInstallUnderPause ==
    [][\A j \in Fetching(cycles) :
          (/\ _refresh_paused
           /\ cycles[j].origin \in {"timer", "watcher"}
           /\ cycles[j].result # Pending
           /\ Resumes(j))
              => /\ ViewUnchanged
                 /\ table_calls' = <<>>]_vars

(***************************************************************************)
(* The control API of the mixin called in any order: start_live_reload     *)
(* also while a timer it set before is alive.  A record is in the store    *)
(* and the timers that are alive tick.                                     *)
(***************************************************************************)
MaxStarts == 2   \* interval timers alive at once when starts repeat

\* start_live_reload, whether or not stop_live_reload was called since the
\* last start
start_live_reload_repeated ==
    /\ mounted
    /\ Cardinality(timers) < MaxStarts
    /\ \E path_exists \in BOOLEAN : StartLiveReload(path_exists)
    /\ table_calls' = <<>>
    /\ UNCHANGED <<store, call_later, cycles, _refresh_paused,
                   _debounce_handle, dataVars, viewCfgVars, tableVars,
                   appVars, probe, obsVars>>

LeakInit ==
    /\ store = [i \in Ids |-> [life |-> "live", issue |-> NewIssue(i, "open")]]
    /\ timers = {}
    /\ watcher_tasks = {}
    /\ call_later = {}
    /\ cycles = <<>>
    /\ _refresh_paused = FALSE
    /\ _refresh_timer = None
    /\ _watcher_task = None
    /\ _debounce_handle = None
    /\ mounted = TRUE
    /\ client = "BdClient"
    /\ _issues = <<>>
    /\ _filtered_issues = <<>>
    /\ _current_filters = [search |-> <<>>,
                           statuses |-> Some({"open", "in_progress"}),
                           priority |-> Nothing, type |-> <<>>]
    /\ _sort_column = "priority"
    /\ _sort_reverse = FALSE
    /\ table_rows = <<>>
    /\ cursor_row = 0
    /\ table_calls = <<>>
    /\ sinceSignal = DEBOUNCE_DELAY + 1
    /\ burstLen = 0
    /\ missed = FALSE
    /\ probe = NoProbe

LeakNext ==
    \/ start_live_reload_repeated
    \/ stop_live_reload
    \/ _do_refresh_timer
    \/ list_issues_returns
    \/ refresh_data

LeakSpec == LeakInit /\ [][LeakNext]_vars

(***************************************************************************)
(* C39: whatever the sequence of start_live_reload and stop_live_reload    *)
(* calls, at most one interval timer and at most one watcher task are      *)
(* alive, and none is alive when the last call was stop_live_reload (the   *)
(* handles are None).  start_live_reload overwrites _refresh_timer and     *)
(* _watcher_task without stopping what they referred to.                   *)
(***************************************************************************)
C39_OneTimerOneWatcher ==
    /\ Cardinality(timers) <= 1
    /\ Cardinality(watcher_tasks) <= 1
    /\ (_refresh_timer = None /\ _watcher_task = None) =>
           (timers = {} /\ watcher_tasks = {})

(***************************************************************************)
(* pause_refresh and resume_refresh with their callers told apart: a       *)
(* dialog of the application (action_create, action_column_menu) or other  *)
(* code of the host class.  A caller that has paused and not yet resumed   *)
(* is an entry of pc "paused"; the interval timer ticks meanwhile.         *)
(***************************************************************************)
MaxCallers == 2

Callers == 1..MaxCallers

Pauser(caller) ==
    [origin |-> "pause_refresh", timer |-> None, pc |-> "paused",
     result |-> Pending, overtaken |-> FALSE, stopped |-> FALSE,
     caller |-> caller]

Pausers(cs) == {j \in 1..Len(cs) : cs[j].pc = "paused"}

\* a caller that has no pause outstanding calls pause_refresh()
pause_refresh_called ==
    \E caller \in Callers :
        /\ \A j \in Pausers(cycles) : cycles[j].caller # caller
        /\ _refresh_paused' = TRUE
        /\ call_later' = {[h EXCEPT !.over_pause = TRUE] : h \in call_later}
        /\ cycles' = Append(cycles, Pauser(caller))
        /\ table_calls' = <<>>
        /\ UNCHANGED <<store, timers, watcher_tasks, _refresh_timer,
                       _watcher_task, _debounce_handle, dataVars, viewCfgVars,
                       tableVars, appVars, probe, obsVars>>

\* a caller that paused calls the matching resume_refresh()
resume_refresh_called ==
    \E j \in Pausers(cycles) :
        /\ _refresh_paused' = FALSE
        /\ cycles' = RemoveAt(cycles, j)
        /\ table_calls' = <<>>
        /\ UNCHANGED <<store, timers, watcher_tasks, call_later,
                       _refresh_timer, _watcher_task, _debounce_handle,
                       dataVars, viewCfgVars, tableVars, appVars, probe,
                       obsVars>>

NestInit ==
    \E old \in Snapshots(PickRecords) :
        Loaded(old, old, Some({"open", "in_progress"}))

NestNext ==
    \/ pause_refresh_called
    \/ resume_refresh_called
    \/ _do_refresh_timer
    \/ list_issues_returns
    \/ refresh_data

NestSpec == NestInit /\ [][NestNext]_vars

(***************************************************************************)
(* C40: pauses nest.  While a caller of pause_refresh() has not called the *)
(* matching resume_refresh(), refresh is suppressed: the flag is set and   *)
(* no timer tick or debounce fire enters refresh_data, also after another  *)
(* caller has resumed.  _refresh_paused is one boolean, which the first    *)
(* resume_refresh() clears.                                                *)
(***************************************************************************)
C40_PausesNest ==
    [][Pausers(cycles) # {} =>
          /\ Pausers(cycles') # {} => _refresh_paused'
          /\ ~NaturalBegins]_vars

====
